---- MODULE Spec2Model ----
(***************************************************************************)
(* FlashMD: a USB cartridge dumper/programmer.                             *)
(*                                                                         *)
(*   device  firmware/Core/Src/main.c (dispatch loop), MD.c (bus, flash)   *)
(*   host    src/flashmd_core.c (transfer engine)                          *)
(*                                                                         *)
(* Sizes are scaled: one "KB" of the source (1024 bytes, which is also one *)
(* DATA_CHUNK_SIZE) is 2*ChunkWords bytes here, and the 512K image of the  *)
(* source (512 chunks) is Kb512 chunks here.  Everything else (opcodes,    *)
(* timeouts in ms, the size-code table, the order of the statements) is    *)
(* the source's.                                                           *)
(***************************************************************************)
EXTENDS Integers, Sequences, FiniteSets, TLC

(***************************************************************************)
(* Bounds                                                                  *)
(***************************************************************************)
\* 16-bit words in one data chunk (512 in the source)
ChunkWords == 1
\* chunks in a 512K image (512 in the source); the size table doubles from it
Kb512 == 4
\* chunks in an 8K SRAM dump (8 in the source); the 32K dump is four times it
Kb8 == 1
\* poll cycles after which the chip has certainly finished a chip erase
MaxErasePolls == 2
\* packets (commands and data chunks) the device receives in one run
MaxPackets == 3
\* POLL_INTERVAL_MS, the length of one silent usb_read in ms (30 in the source)
PollMs == 500
\* operations one run of the host starts
MaxOps == 2
\* pages of one bank: chunks after which addj wraps and bank counts on (64 in
\* the source)
PagesPerBank == 2
\* the scan block of trim_rom_file, in bytes (4096 in the source)
TRIM_BUFFER_SIZE == 3

(***************************************************************************)
(* Program constants                                                       *)
(***************************************************************************)
CMD_READ_ROM == 10
CMD_WRITE_ROM == 11
CMD_CONNECT == 12
CMD_CHECK_ID == 13
CMD_FULL_ERASE == 14
CMD_CLEAR_BUFFER == 15
CMD_READ_SRAM == 26
CMD_WRITE_SRAM == 27
CMD_SECTOR_ERASE == 30
CMD_ERASE_ADDR == 46
MAGIC_1 == 170
MAGIC_2 == 85
MAGIC_3 == 170
MAGIC_4 == 187
FLASHMD_SIZE_512K == 1
FLASHMD_SIZE_1M == 2
FLASHMD_SIZE_2M == 3
FLASHMD_SIZE_4M == 4
FLASHMD_SIZE_8M == 5
SmallSector == 4096
LargeSector == 32768

\* bytes in one data chunk (1024 in the source) and in one KB
DATA_CHUNK_SIZE == 2 * ChunkWords
\* words of flash the model keeps (8 MB in the scaled units)
FlashWords == 16 * Kb512 * ChunkWords
\* bytes of SRAM (32768 in the source)
SramBytes == 4 * Kb8 * DATA_CHUNK_SIZE
\* word address that closes the 512K image in the source (0x40000)
Addr512K == 262144

Opcodes == {CMD_READ_ROM, CMD_WRITE_ROM, CMD_CONNECT, CMD_CHECK_ID,
            CMD_FULL_ERASE, CMD_CLEAR_BUFFER, CMD_READ_SRAM, CMD_WRITE_SRAM,
            CMD_SECTOR_ERASE, CMD_ERASE_ADDR}

Min(a, b) == IF a < b THEN a ELSE b

(***************************************************************************)
(* State                                                                   *)
(***************************************************************************)
VARIABLES
    \* ---- device (firmware main.c, MD.c) ----
    cmdbuff,        \* command slot: bytes 0..8 of cmdbuff[64], as cmdbuff[1..9]
    receiveBuffer,  \* the data chunk last received from the host
    busMode,        \* direction of the data bus: "write" or "read"
    sramEn,         \* the overlay latch set by enableSram_MD
    flash,          \* flash words, word address -> 0..65535
    sram,           \* SRAM bytes
    rx,             \* device-to-host transfers not yet read by the host
    dscript,        \* the statements the running handler has still to execute
    dj,             \* "time" of eraseFLASH: poll cycles of the running chip erase
    dropped,        \* chunks CDC_Transmit_FS refused (busy) since the last dispatch
    chipKnown,      \* the cartridge answers the ID query with C2 CB
    chip,           \* the flash chip: the write cycles of the running handler
                    \* that it saw last, its ID mode, and what the status
                    \* reads of erase_sector and eraseFLASH returned
    jitter,         \* the transport may stall and fragment transfers
    npackets,       \* packets the device has received so far
    \* ---- host (flashmd_core.c) ----
    hpc,            \* where the running operation stands ("idle": none runs)
    h,              \* the locals of the running operation
    helper,         \* the read helper the operation is inside, or "none"
    ret,            \* what the last helper returned
    file,           \* the content of the output file
    fp,             \* "open" while the operation holds a FILE handle
    wfile,          \* the content of the input file of a write
    interrupted,    \* static volatile int interrupted
    result,         \* what the last operation returned
    sent,           \* opcodes of the packets the running operation has sent
    nops,           \* operations started so far
    faulty,         \* the transport may return errors
    \* ---- graphical front end (flashmd_gui.c) ----
    gui             \* gui_state_t state, the worker threads, the USB handler
                    \* process and the two pipes

\* device state no host action touches
devQuiet == <<busMode, sramEn, flash, sram, dscript, dj, dropped, chipKnown,
              chip, jitter, npackets>>
devVars == <<cmdbuff, receiveBuffer, rx, devQuiet>>
\* host state only the start of an operation and the signal handler touch
hostQuiet == <<wfile, interrupted, nops, faulty, gui>>
hostVars == <<hpc, h, helper, ret, file, fp, result, sent, hostQuiet>>

vars == <<devVars, hostVars>>

(***************************************************************************)
(* Device: helpers                                                         *)
(***************************************************************************)
\* cmdbuff[i] of the source (0-based)
CB(i) == cmdbuff[i + 1]

ZeroPacket == [i \in 1..9 |-> 0]

\* the packet send_command builds: opcode, magic, parameters, zeros
Packet(op, magic, params) ==
    [i \in 1..9 |-> IF i = 1 THEN op
                    ELSE IF i <= 5 THEN magic[i - 1]
                    ELSE IF i - 5 <= Len(params) THEN params[i - 5]
                    ELSE 0]

GoodMagic == <<MAGIC_1, MAGIC_2, MAGIC_3, MAGIC_4>>

\* the test every handler makes on cmdbuff[1..4]
MagicOK == CB(1) = MAGIC_1 /\ CB(2) = MAGIC_2 /\ CB(3) = MAGIC_3 /\ CB(4) = MAGIC_4

\* a text transfer and a binary transfer on the IN endpoint
Txt(s) == [txt |-> s, bin |-> <<>>]
Bin(b) == [txt |-> "", bin |-> b]

\* CDC_Transmit: waits while the endpoint is busy, so the text is never lost
CDC_Transmit(q, s) == Append(q, Txt(s))

\* CDC_Transmit_FS called directly: USBD_BUSY while the previous transfer has
\* not been collected, and the dump loops ignore the return value
UsbBusy(q) == q # <<>>

HiByte(w) == w \div 256
LoByte(w) == w % 256

RECURSIVE BitAnd(_, _, _)
BitAnd(a, b, n) ==
    IF n = 0 THEN 0
    ELSE 2 * BitAnd(a \div 2, b \div 2, n - 1) + (IF a % 2 = 1 /\ b % 2 = 1 THEN 1 ELSE 0)

\* the ROM chunk j: words j*512 .. j*512+511, high byte first
RomChunk(j) ==
    [k \in 1..DATA_CHUNK_SIZE |->
        LET a == j * ChunkWords + (k - 1) \div 2
            w == IF a < FlashWords THEN flash[a] ELSE 65535
        IN IF k % 2 = 1 THEN HiByte(w) ELSE LoByte(w)]

\* the SRAM chunk j: bytes j*1024 .. j*1024+1023
SramChunk(j) ==
    [k \in 1..DATA_CHUNK_SIZE |->
        LET a == j * DATA_CHUNK_SIZE + (k - 1)
        IN IF a < SramBytes THEN sram[a] ELSE 255]

\* wsize of the 0x0A handler, in chunks
RomDumpSize(code) ==
    IF code = 4 THEN 8 * Kb512
    ELSE IF code = 2 THEN 2 * Kb512
    ELSE IF code = 3 THEN 4 * Kb512
    ELSE Kb512

RomDumpText(code) ==
    IF code = 4 THEN "4M ROM DUMP START!!!\r\n"
    ELSE IF code = 2 THEN "1M ROM DUMP START!!!\r\n"
    ELSE IF code = 3 THEN "2M ROM DUMP START!!!\r\n"
    ELSE "512K ROM DUMP START!!!\r\n"

\* wsize of the 0x1A handler, in chunks
SramDumpSize(code) == IF code = 1 THEN 4 * Kb8 ELSE Kb8

SramDumpText(code) ==
    IF code = 1 THEN "32K RAM DUMP START!!!\r\n" ELSE "8K ROM DUMP START!!!\r\n"

(***************************************************************************)
(* Device: the handlers of the dispatch loop, as the statements they run   *)
(***************************************************************************)
Tx(s) == [op |-> "tx", a |-> 0, s |-> s]
I(op, a) == [op |-> op, a |-> a, s |-> ""]

\* for (j = 0; j < wsize; j++) { fill transmitBuffer; CDC_Transmit_FS(...) }
DumpLoop(kind, wsize) == [j \in 1..wsize |-> I(kind, j - 1)]

\* 0x0A  MD CHOOSE SIZE DUMP
Script0A ==
    (IF MagicOK
     THEN <<Tx(RomDumpText(CB(5))), I("rm", 0), I("delay", 100)>>
          \o DumpLoop("romchunk", RomDumpSize(CB(5)))
          \o <<I("delay", 150), Tx("DUMPER ROM FINISH!!!\r\n")>>
     ELSE <<>>)
    \o <<Tx("PUSH SAVE GAME BUTTON!!!\r\n"), I("wm", 0), I("clear", 0)>>

\* 0x1A  MD SRAM CHOOSE SIZE DUMP
Script1A ==
    (IF MagicOK
     THEN <<Tx(SramDumpText(CB(5))), I("sram", 1), I("delay", 100)>>
          \o DumpLoop("sramchunk", SramDumpSize(CB(5)))
          \o <<I("delay", 150), I("sram", 0), Tx("DUMPER RAM FINISH!!!\r\n")>>
     ELSE <<>>)
    \o <<I("wm", 0), I("clear", 0)>>

\* 0x0B  MD FLASH WRITE: addw = bank*64*512 + addj*512
Script0B ==
    IF MagicOK
    THEN <<I("pgm", (CB(6) * PagesPerBank + CB(5)) * ChunkWords),
           I("memclear", 0), I("clear", 0), Tx("ADD WRITE OK\r\n")>>
    ELSE <<>>

\* 0x1B  SRAM write: addw = bank*64*1024 + addj*1024
Script1B ==
    IF MagicOK
    THEN <<I("sram", 1), I("wm", 0),
           I("sramwr", (CB(6) * PagesPerBank + CB(5)) * DATA_CHUNK_SIZE),
           I("sram", 0), I("memclear", 0), I("clear", 0),
           Tx("ADD WRITE GK\r\n")>>
    ELSE <<>>

\* 0x0C without its cmdclear()
Script0C_sticky ==
    IF MagicOK
    THEN <<I("delay", 100), Tx("FlashMaster MD Dumper is connected\r\n")>>
    ELSE <<>>

\* 0x0C  MD DUMPER CONNECT
Script0C ==
    IF MagicOK
    THEN <<I("delay", 100), Tx("FlashMaster MD Dumper is connected\r\n"),
           I("clear", 0)>>
    ELSE <<>>

\* checkid() without its closing ID exit
checkid_stuck ==
    <<Tx("-- MD CART ID --\r\n"),
      I("wm", 0), I("idmode", 1), I("rm", 0), I("readid", 0),
      I("wm", 0), I("idmode", 0), I("rm", 0), I("delay", 100),
      I("wm", 0), I("idmode", 1), I("rm", 0), I("readid", 0),
      Tx("FLASHID\r\n"), I("idname", 0)>>

\* checkid() of MD.c
checkid ==
    <<Tx("-- MD CART ID --\r\n"),
      I("wm", 0), I("idmode", 1), I("rm", 0), I("readid", 0),
      I("wm", 0), I("idmode", 0), I("rm", 0), I("delay", 100),
      I("wm", 0), I("idmode", 1), I("rm", 0), I("readid", 0),
      Tx("FLASHID\r\n"), I("idname", 0),
      I("wm", 0), I("idmode", 0)>>

\* 0x0D  MD CHECK HEADER
Script0D ==
    IF MagicOK
    THEN <<I("rm", 0)>> \o checkid \o <<I("delay", 100), I("wm", 0), I("clear", 0)>>
    ELSE <<>>

\* eraseFLASH() of MD.c
eraseFLASH ==
    <<Tx("-- MD CART ERASE --\r\n"), Tx("FLASH ERASE START\r\n"),
      I("wm", 0), I("chiperase", 0), I("rm", 0), I("poll", 0),
      I("wm", 0), Tx("FLASH ERASE FINISH!!!\r\n")>>

\* 0x0E  MDFLASHERASE
Script0E ==
    IF MagicOK
    THEN eraseFLASH
         \o <<I("delay", 100), Tx("SRAM ERASE START\r\n"), I("sram", 1),
              I("wm", 0), I("sramfill", 0), I("sram", 0),
              Tx("SRAM ERASE FINISH!!!\r\n"), I("clear", 0)>>
    ELSE <<>>

\* a size table that takes 512K for 1M
SectorLimit_wide(code) ==
    IF code = 3 THEN 4 * Addr512K
    ELSE IF code = 4 THEN 8 * Addr512K
    ELSE IF code = 0 THEN 1
    ELSE 2 * Addr512K

\* sectoradd of the 0x1E handler
SectorLimit(code) ==
    IF code = 1 THEN Addr512K
    ELSE IF code = 2 THEN 2 * Addr512K
    ELSE IF code = 3 THEN 4 * Addr512K
    ELSE IF code = 4 THEN 8 * Addr512K
    ELSE IF code = 0 THEN 1
    ELSE Addr512K

EraseStartText(code) ==
    IF code = 1 THEN "512K ERASEING\r\n"
    ELSE IF code = 2 THEN "1M ERASEING\r\n"
    ELSE IF code = 3 THEN "2M ERASEING\r\n"
    ELSE IF code = 4 THEN "4M ERASEING\r\n"
    ELSE IF code = 0 THEN "SECTORADD ERASEING\r\n"
    ELSE "512K ERASEING\r\n"

EraseOkText(code) ==
    IF code = 1 THEN "\r\n512K ERASE OK!\r\n"
    ELSE IF code = 2 THEN "\r\n1M ERASE OK!\r\n"
    ELSE IF code = 3 THEN "\r\n2M ERASE OK!\r\n"
    ELSE IF code = 4 THEN "\r\n4M ERASE OK!\r\n"
    ELSE IF code = 5 THEN "\r\n8M ERASE OK!\r\n"
    ELSE IF code = 0 THEN "SECTORADD ERASE OK!\r\n"
    ELSE "\r\n512K ERASE OK!\r\n"

\* the step the sector loops add to address and to i
SectorStep(address) == IF address < LargeSector THEN SmallSector ELSE LargeSector

\* erase_sector(sector_addr) of MD.c: write_mode(), the six setByte calls,
\* then the status loop
erase_sector(sector_addr) ==
    <<I("wm", 0), I("sectorcmd", sector_addr), I("sector", sector_addr)>>

\* for (i = 0; i < sectoradd;) { erase_sector(address); CDC_Transmit("."); ... }
RECURSIVE SectorLoop(_, _, _)
SectorLoop(address, i, sectoradd) ==
    IF i < sectoradd
    THEN erase_sector(address) \o <<Tx(".")>>
         \o SectorLoop(address + SectorStep(address), i + SectorStep(address), sectoradd)
    ELSE <<>>

\* the 24-bit address a packet carries from byte n on
PacketAddress(n) == (CB(n) * 256 + CB(n + 1)) * 256 + CB(n + 2)

\* 0x1E  MDCHOOSE SIZE SECTORERASE
Script1E ==
    IF MagicOK
    THEN <<Tx(EraseStartText(CB(5)))>>
         \o (IF CB(5) < 5
             THEN SectorLoop(IF CB(5) = 0 THEN PacketAddress(6) ELSE 0, 0,
                             SectorLimit(CB(5)))
             ELSE eraseFLASH)
         \o <<Tx(EraseOkText(CB(5))), I("wm", 0), I("clear", 0)>>
    ELSE <<>>

\* 0x2E  MDSECTORERASE
Script2E ==
    IF MagicOK
    THEN <<I("wm", 0)>> \o erase_sector(PacketAddress(5))
         \o <<Tx("\r\nSECTORADD ERASE OK!\r\n"), I("clear", 0)>>
    ELSE <<>>

\* 0x0F  MDBUFFCLEAT
Script0F ==
    IF MagicOK
    THEN <<I("clear", 0), I("delay", 100), Tx("BUFF IS CLEAR\r\n")>>
    ELSE <<>>

\* one pass of while (1): the handler the opcode in cmdbuff[0] selects
Handler ==
    IF CB(0) = CMD_READ_ROM THEN Script0A
    ELSE IF CB(0) = CMD_READ_SRAM THEN Script1A
    ELSE IF CB(0) = CMD_WRITE_ROM THEN Script0B
    ELSE IF CB(0) = CMD_WRITE_SRAM THEN Script1B
    ELSE IF CB(0) = CMD_CONNECT THEN Script0C
    ELSE IF CB(0) = CMD_CHECK_ID THEN Script0D
    ELSE IF CB(0) = CMD_FULL_ERASE THEN Script0E
    ELSE IF CB(0) = CMD_SECTOR_ERASE THEN Script1E
    ELSE IF CB(0) = CMD_ERASE_ADDR THEN Script2E
    ELSE IF CB(0) = CMD_CLEAR_BUFFER THEN Script0F
    ELSE <<>>

(***************************************************************************)
(* Device: what one statement does                                         *)
(***************************************************************************)
\* the word the flash holds after programming w over old: bits are only cleared
Programmed(old, w) == BitAnd(old, w, 16)

\* the 0x0B loop: every word of the chunk that is not FFFF is programmed at
\* addw + i/2
ProgramChunk(addw) ==
    [a \in DOMAIN flash |->
        IF a >= addw /\ a < addw + ChunkWords
        THEN LET hi == receiveBuffer[2 * (a - addw) + 1]
                 lo == receiveBuffer[2 * (a - addw) + 2]
             IN IF hi = 255 /\ lo = 255 THEN flash[a]
                ELSE Programmed(flash[a], hi * 256 + lo)
        ELSE flash[a]]

\* the 0x1B loop: byte i of the chunk goes to addw + i
WriteSramChunk(addw) ==
    [a \in DOMAIN sram |->
        IF a >= addw /\ a < addw + DATA_CHUNK_SIZE
        THEN receiveBuffer[a - addw + 1] ELSE sram[a]]

\* memclear(): rows 0..14 of the 16 rows of receiveBuffer
memclear ==
    [k \in 1..DATA_CHUNK_SIZE |->
        IF k <= (15 * DATA_CHUNK_SIZE) \div 16 THEN 0 ELSE receiveBuffer[k]]

\* the chip's sector that holds a word address, and the words of the model's
\* flash it covers
SectorBase(a) == a - (a % SectorStep(a))
ScaleAddr(a) == (a * Kb512 * ChunkWords) \div Addr512K
EraseSector(address) ==
    [a \in DOMAIN flash |->
        IF /\ a >= ScaleAddr(SectorBase(address))
           /\ a < ScaleAddr(SectorBase(address) + SectorStep(address))
        THEN 65535 ELSE flash[a]]

ErasedFlash == [a \in DOMAIN flash |-> 65535]

\* setByte(address, dat): one write cycle, the low byte of the bus carrying dat
setByte(address, dat) == [call |-> "setByte", a |-> address, d |-> dat]
\* the write cycle of the 0x0B loop that carries the 16-bit word
WriteWord(address, w) == [call |-> "word", a |-> address, d |-> w]

\* setByte(0x555,0xaa); setByte(0x2aa,0x55); setByte(0x555,0x90) of checkid
IdEntry == <<setByte(1365, 170), setByte(682, 85), setByte(1365, 144)>>
\* setByte(0x555,0xaa); setByte(0x2aa,0x55); setByte(0x555,0xf0) of checkid
IdExit == <<setByte(1365, 170), setByte(682, 85), setByte(1365, 240)>>
\* the six setByte calls of eraseFLASH
ChipEraseCycles ==
    <<setByte(1365, 170), setByte(682, 85), setByte(1365, 128),
      setByte(1365, 170), setByte(682, 85), setByte(1365, 16)>>
\* erase_sector with the second unlock left out
SectorEraseCycles_bare(sector_addr) ==
    <<setByte(1365, 170), setByte(682, 85), setByte(1365, 128),
      setByte(sector_addr, 48)>>

\* the six setByte calls of erase_sector, before its loop and inside it
SectorEraseCycles(sector_addr) ==
    <<setByte(1365, 170), setByte(682, 85), setByte(1365, 128),
      setByte(1365, 170), setByte(682, 85), setByte(sector_addr, 48)>>

\* the cycles of the 0x0B loop from word i of the chunk on
RECURSIVE ProgramCycles(_, _)
ProgramCycles(addw, i) ==
    IF i >= ChunkWords THEN <<>>
    ELSE LET hi == receiveBuffer[2 * i + 1]
             lo == receiveBuffer[2 * i + 2]
         IN (IF hi = 255 /\ lo = 255 THEN <<>>
             ELSE <<setByte(1365, 170), setByte(682, 85), setByte(1365, 160),
                    WriteWord(addw + i, hi * 256 + lo)>>)
            \o ProgramCycles(addw, i + 1)

\* the write cycles a statement makes
Cycles(it) ==
    IF it.op = "idmode" THEN (IF it.a = 1 THEN IdEntry ELSE IdExit)
    ELSE IF it.op = "chiperase" THEN ChipEraseCycles
    ELSE IF it.op = "sectorcmd" THEN SectorEraseCycles(it.a)
    ELSE IF it.op = "pgm" THEN ProgramCycles(it.a, 0)
    ELSE <<>>

\* The pins of GPIOE carry a cycle's data only while the port is an output
\* (write_mode); as an input (read_mode) the port leaves the bus to its
\* pull-ups and the output register is not seen.
OnBus(cycles, mode) ==
    [k \in 1..Len(cycles) |->
        [call |-> cycles[k].call, a |-> cycles[k].a, d |-> cycles[k].d,
         driven |-> mode = "write"]]

\* the cycles kept: as many as one chunk and one command sequence make
LogLen == 4 * ChunkWords + 6
Latest(log) == IF Len(log) <= LogLen THEN log
               ELSE SubSeq(log, Len(log) - LogLen + 1, Len(log))

\* the values a status read of erase_sector may return: busy with the toggle
\* bit either way, time limit exceeded (bit 5), done (bit 7), both
StatusReads == {0, 32, 64, 128, 160}
Bit(v, mask) == (v \div mask) % 2

\* if ((status1 & 0x40) == (status2 & 0x40)) if (status2 & 0x80) return 1;
Complete(status1, status2) == Bit(status1, 64) = Bit(status2, 64) /\ Bit(status2, 128) = 1
\* if (status2 & 0x20) { the six setByte calls }
Reissue(status2) == Bit(status2, 32) = 1

\* what getByte(0x0) .. getByte(0x7) may return in one cycle of eraseFLASH:
\* FF everywhere, 0 everywhere, or FF but for one address
ProbeReads ==
    {[k \in 1..8 |-> 255], [k \in 1..8 |-> 0]}
    \cup {[k \in 1..8 |-> IF k = bad THEN 0 ELSE 255] : bad \in 1..8}

\* the chain of tests on data[0] .. data[7]: the one on data[7] has no else
RECURSIVE eraseflag(_, _)
eraseflag(data, n) ==
    IF n = 1 THEN (IF data[1] = 255 THEN 1 ELSE 0)
    ELSE IF n = 8
         THEN (IF data[8] = 255 /\ eraseflag(data, 7) = 1 THEN 1 ELSE eraseflag(data, 7))
    ELSE (IF data[n] = 255 /\ eraseflag(data, n - 1) = 1 THEN 1 ELSE 0)

\* no cycle seen, chip in read-array mode, locals unset; slow: the chip takes
\* its time, so that a status read may find it busy or failed (else every
\* erase is over by the first read that could tell)
Chip0 == [log |-> <<>>, id |-> FALSE, status1 |-> 0, status2 |-> 0, data |-> <<>>,
          slow |-> FALSE]

\* what the reads of a statement may return
StatusOf(it) ==
    IF it.op # "sector" THEN {0} ELSE IF chip.slow THEN StatusReads ELSE {128}
ProbesOf(it) ==
    IF it.op # "poll" THEN {[k \in 1..8 |-> 255]}
    ELSE IF chip.slow THEN ProbeReads
    ELSE {[k \in 1..8 |-> 255], [k \in 1..8 |-> 0]}

IdText == IF chipKnown THEN "MX29LV640EB MD FLASH CART\r\n" ELSE "NO FIND NGP CARD\r\n"

\* The host is late to collect a chunk only when no operation is reading: a
\* chunk takes the device longer to fill than a polling host to collect.
LateHost == hpc = "idle"

\* statements that hand a text to CDC_Transmit
Transmits(it) == it.op \in {"tx", "idname", "poll"}

(***************************************************************************)
(* Device: actions                                                         *)
(***************************************************************************)
\* The dispatch loop finds an opcode in cmdbuff[0] and enters its handler.
DevDispatch ==
    /\ dscript = <<>>
    /\ Handler # <<>>
    /\ dscript' = Handler
    /\ dropped' = 0
    /\ UNCHANGED <<cmdbuff, receiveBuffer, busMode, sramEn, flash, sram, rx, dj,
                   chipKnown, chip, jitter, npackets, hostVars>>

\* The running handler executes its next statement.  A status loop (the
\* "sector" of erase_sector, the "poll" of eraseFLASH) makes one cycle per step.
DevStep ==
    /\ dscript # <<>>
    /\ LET it == Head(dscript) IN
       \E status1 \in StatusOf(it), status2 \in StatusOf(it), data \in ProbesOf(it) :
        LET done == IF it.op = "sector" THEN Complete(status1, status2)
                    ELSE IF it.op = "poll" THEN eraseflag(data, 8) = 1
                    ELSE TRUE
            again == it.op = "sector" /\ ~done /\ Reissue(status2)
        IN
        /\ Transmits(it) => ~UsbBusy(rx)
        /\ it.op = "delay" => (rx = <<>> \/ jitter)
        /\ it.op \in {"romchunk", "sramchunk"} /\ UsbBusy(rx) => LateHost
        /\ it.op = "poll" /\ dj + 1 >= MaxErasePolls => done
        /\ rx' = IF it.op = "tx" THEN CDC_Transmit(rx, it.s)
                 ELSE IF it.op = "idname" THEN CDC_Transmit(rx, IdText)
                 ELSE IF it.op = "poll" THEN CDC_Transmit(rx, "USE TIME s\r\n")
                 ELSE IF it.op = "romchunk" /\ ~UsbBusy(rx)
                      THEN Append(rx, Bin(RomChunk(it.a)))
                 ELSE IF it.op = "sramchunk" /\ ~UsbBusy(rx)
                      THEN Append(rx, Bin(SramChunk(it.a)))
                 ELSE rx
        /\ dropped' = IF it.op \in {"romchunk", "sramchunk"} /\ UsbBusy(rx)
                      THEN dropped + 1 ELSE dropped
        /\ busMode' = IF it.op = "wm" THEN "write"
                      ELSE IF it.op \in {"rm", "sram", "sector"} THEN "read"
                      ELSE busMode
        /\ sramEn' = IF it.op = "sram" THEN it.a = 1 ELSE sramEn
        /\ flash' = IF it.op = "pgm" /\ busMode = "write" THEN ProgramChunk(it.a)
                    ELSE IF it.op = "chiperase" /\ busMode = "write" THEN ErasedFlash
                    ELSE IF it.op = "sector" /\ done THEN EraseSector(it.a)
                    ELSE flash
        /\ sram' = IF it.op = "sramwr" THEN WriteSramChunk(it.a)
                   ELSE IF it.op = "sramfill" THEN [a \in DOMAIN sram |-> 0]
                   ELSE sram
        /\ receiveBuffer' = IF it.op = "memclear" THEN memclear ELSE receiveBuffer
        /\ cmdbuff' = IF it.op = "clear" THEN ZeroPacket ELSE cmdbuff
        /\ dj' = IF it.op = "chiperase" THEN 0
                 ELSE IF it.op = "poll" THEN dj + 1 ELSE dj
        /\ chip' =
             IF it.op = "clear"
             THEN [chip EXCEPT !.log = <<>>, !.status1 = 0, !.status2 = 0, !.data = <<>>]
             ELSE IF it.op = "sector"
             THEN [chip EXCEPT
                     !.status1 = status1, !.status2 = status2,
                     !.log = IF again
                             THEN Latest(chip.log \o OnBus(SectorEraseCycles(it.a), "read"))
                             ELSE chip.log]
             ELSE IF it.op = "poll" THEN [chip EXCEPT !.data = data]
             ELSE [chip EXCEPT
                     !.log = Latest(chip.log \o OnBus(Cycles(it), busMode)),
                     !.id = IF it.op = "idmode" /\ busMode = "write" THEN it.a = 1
                            ELSE chip.id,
                     !.status1 = 0, !.status2 = 0]
        /\ dscript' = IF done THEN Tail(dscript) ELSE dscript
    /\ UNCHANGED <<chipKnown, jitter, npackets, hostVars>>


(***************************************************************************)
(* Host: transport                                                         *)
(***************************************************************************)
\* the element a text byte leaves in a binary buffer
TEXTBYTE == 256
NEWLINE == 10
\* temp[256] and temp[512] of the read helpers, in the model's bytes
Buf256 == IF DATA_CHUNK_SIZE >= 4 THEN DATA_CHUNK_SIZE \div 4 ELSE 1
Buf512 == IF DATA_CHUNK_SIZE >= 2 THEN DATA_CHUNK_SIZE \div 2 ELSE 1

\* the device has a handler to run or to finish
DevWorking == dscript # <<>> \/ Handler # <<>>
\* the device is inside the unbounded status loop of erase_sector
DevSlow == dscript # <<>> /\ Head(dscript).op = "sector"

\* A read of wait ms may time out: always on a stalling transport; else only
\* with nothing to collect, and while the device is working (every delay of
\* its handlers is shorter than every ceiling of the host) only as long as
\* the ceiling is not reached by it.
Silent(el, wait, ceiling) ==
    jitter \/ (rx = <<>> /\ (~DevWorking \/ DevSlow \/ el + wait < ceiling))

\* the lengths a read of at most m bytes may return
Frag(m) == IF jitter THEN 1..m ELSE {m}

\* usb_read(buf, max_len, timeout): -1 on error, 0 on timeout, else the bytes
\* of the transfer at the head of the IN endpoint
usb_read(max_len, silent) ==
    (IF faulty THEN {[n |-> -1, txt |-> "", bin |-> <<>>, rest |-> rx]} ELSE {})
    \cup (IF silent THEN {[n |-> 0, txt |-> "", bin |-> <<>>, rest |-> rx]} ELSE {})
    \cup (IF rx = <<>> THEN {}
          ELSE LET t == Head(rx) IN
               IF t.txt # ""
               THEN {[n |-> 1, txt |-> t.txt, bin |-> <<TEXTBYTE>>, rest |-> Tail(rx)]}
               ELSE {[n |-> k, txt |-> "", bin |-> SubSeq(t.bin, 1, k),
                      rest |-> IF k = Len(t.bin) THEN Tail(rx)
                               ELSE <<Bin(SubSeq(t.bin, k + 1, Len(t.bin)))>> \o Tail(rx)] :
                        k \in Frag(Min(max_len, Len(t.bin)))})

\* buf[total-1] == '\n' after the bytes of u were copied
EndsLine(u) == IF u.txt # "" THEN u.txt # "." ELSE u.bin[Len(u.bin)] = NEWLINE

\* strstr(text, pattern) for the texts the device sends
Contains(text, pattern) ==
    IF pattern = "connected" THEN text = "FlashMaster MD Dumper is connected\r\n"
    ELSE IF pattern = "SRAM ERASE FINISH" THEN text = "SRAM ERASE FINISH!!!\r\n"
    ELSE IF pattern = "ERASE OK"
         THEN text \in {EraseOkText(c) : c \in 0..6} \cup {"\r\nSECTORADD ERASE OK!\r\n"}
    ELSE FALSE

(***************************************************************************)
(* Host: the shape of an action                                            *)
(***************************************************************************)
H0 == [op |-> "none", size_kb |-> 0, no_trim |-> FALSE, size_code |-> 0,
       total_bytes |-> 0, device_bytes |-> 0, i |-> 0, chunk_bytes_read |-> 0,
       elapsed |-> 0, timeout |-> 0, total |-> 0, resp |-> <<>>, pattern |-> "",
       buffer |-> <<>>, saved |-> 0, written |-> 0, addj |-> 0, bank |-> 0,
       received |-> 0, file_size |-> 0, write_size |-> 0, expired |-> FALSE,
       said |-> "none"]

Ctl(pc2, h2) == hpc' = pc2 /\ h' = h2
Hlp(name, r) == helper' = name /\ ret' = r
Out(res, snt) == result' = res /\ sent' = snt
Wire(cmd, q, rb) == cmdbuff' = cmd /\ rx' = q /\ receiveBuffer' = rb
Fs(f, p) == file' = f /\ fp' = p
Quiet == UNCHANGED <<hostQuiet, devQuiet>>
SameOut == UNCHANGED <<result, sent>>
SameWire == UNCHANGED <<cmdbuff, rx, receiveBuffer>>
SameFs == UNCHANGED <<file, fp>>
SameHlp == UNCHANGED <<helper, ret>>

\* the operation returns r
Return(r) == hpc' = "idle" /\ h' = h /\ result' = r /\ sent' = sent

\* emit_msg: the kind of the last line the operation composed, "note" for an
\* announcement or a progress line, "error" for emit_msg(config, 1, ..),
\* "summary" for the line that tells what the operation did
Said(h2, kind) == [h2 EXCEPT !.said = kind]
\* emit_msg(config, 1, ..) and return r
Fail(r) == hpc' = "idle" /\ h' = Said(h, "error") /\ result' = r /\ sent' = sent
\* the closing line of an operation and return r
Finish(r) == hpc' = "idle" /\ h' = Said(h, "summary") /\ result' = r /\ sent' = sent

\* a helper is entered with its counters at zero
Enter(timeout, pattern) ==
    [h EXCEPT !.elapsed = 0, !.timeout = timeout, !.total = 0, !.resp = <<>>,
              !.pattern = pattern, !.buffer = <<>>]

\* usb_write of a command packet or of a data chunk fails
SendFails == faulty

\* a silent read brought the poll counter to el2; expired remembers that some
\* wait of the operation ran to its ceiling
Waited(el2) ==
    [h EXCEPT !.elapsed = el2, !.expired = h.expired \/ ~(el2 < h.timeout)]

\* read_all_responses ended its wait while the device had more to say
GaveUp(el2) == ~(el2 < h.timeout) /\ (rx # <<>> \/ DevWorking)

\* The device is in the statements that end a handler (bus direction, buffer
\* clears): they take it less time than a USB transfer takes the host, which
\* therefore never writes in the middle of them.
DevFast == dscript # <<>> /\ Head(dscript).op \in {"wm", "rm", "clear", "memclear", "sram"}

(***************************************************************************)
(* Host: the read helpers, one usb_read per step                           *)
(***************************************************************************)
\* read_response(buf, 256, timeout)
read_response ==
    /\ helper = "read_response"
    /\ \E u \in usb_read(Buf256, Silent(h.elapsed, PollMs, h.timeout)) :
        LET total2 == h.total + u.n
            el2 == h.elapsed + PollMs
        IN /\ rx' = u.rest
           /\ IF u.n < 0 THEN Hlp("none", -1) /\ h' = h
              ELSE IF u.n > 0
              THEN /\ h' = [h EXCEPT !.total = total2, !.elapsed = 0,
                                     !.resp = Append(h.resp, u.txt)]
                   /\ IF EndsLine(u) \/ ~(total2 < Buf256)
                      THEN Hlp("none", total2) ELSE SameHlp
              ELSE /\ h' = Waited(el2)
                   /\ IF el2 < h.timeout THEN SameHlp ELSE Hlp("none", h.total)
    /\ UNCHANGED <<hpc, cmdbuff, receiveBuffer>>
    /\ SameOut /\ SameFs /\ Quiet

\* read_all_responses(config, timeout)
read_all_responses ==
    /\ helper = "read_all_responses"
    /\ \E u \in usb_read(Buf512, Silent(h.elapsed, PollMs, h.timeout)) :
        LET el2 == h.elapsed + PollMs
        IN /\ rx' = u.rest
           /\ IF u.n > 0
              THEN h' = [h EXCEPT !.elapsed = 0] /\ SameHlp
              ELSE /\ h' = [h EXCEPT !.elapsed = el2, !.expired = h.expired \/ GaveUp(el2)]
                   /\ IF el2 < h.timeout THEN SameHlp ELSE Hlp("none", 0)
    /\ UNCHANGED <<hpc, cmdbuff, receiveBuffer>>
    /\ SameOut /\ SameFs /\ Quiet

\* read_until_complete(config, end_pattern, timeout): the accumulating loop
read_until_complete ==
    /\ helper = "read_until_complete"
    /\ \E u \in usb_read(Buf512, Silent(h.elapsed, PollMs, h.timeout)) :
        LET el2 == h.elapsed + PollMs
            resp2 == Append(h.resp, u.txt)
        IN /\ rx' = u.rest
           /\ IF u.n < 0 THEN Hlp("none", -1) /\ h' = h
              ELSE IF u.n > 0
              THEN /\ h' = [h EXCEPT !.resp = resp2, !.elapsed = 0]
                   /\ IF \E k \in 1..Len(resp2) : Contains(resp2[k], h.pattern)
                      THEN Hlp("read_until_complete.drain", ret) ELSE SameHlp
              ELSE /\ h' = Waited(el2)
                   /\ IF el2 < h.timeout THEN SameHlp ELSE Hlp("none", -1)
    /\ UNCHANGED <<hpc, cmdbuff, receiveBuffer>>
    /\ SameOut /\ SameFs /\ Quiet

\* read_until_complete: while ((n = usb_read(temp, 512, 100)) > 0) after the
\* end pattern was seen
read_until_complete_drain ==
    /\ helper = "read_until_complete.drain"
    /\ \E u \in usb_read(Buf512, Silent(0, 100, 100)) :
        /\ rx' = u.rest
        /\ IF u.n > 0 THEN SameHlp ELSE Hlp("none", 0)
    /\ UNCHANGED <<hpc, h, cmdbuff, receiveBuffer>>
    /\ SameOut /\ SameFs /\ Quiet

\* read_binary(buf, 1024, timeout)
read_binary ==
    /\ helper = "read_binary"
    /\ \E u \in usb_read(DATA_CHUNK_SIZE - h.total,
                         Silent(h.elapsed, PollMs, h.timeout)) :
        LET total2 == h.total + u.n
            el2 == h.elapsed + PollMs
        IN /\ rx' = u.rest
           /\ IF u.n < 0 THEN Hlp("none", -1) /\ h' = h
              ELSE IF u.n > 0
              THEN /\ h' = [h EXCEPT !.total = total2, !.elapsed = 0,
                                     !.buffer = h.buffer \o u.bin]
                   /\ IF total2 < DATA_CHUNK_SIZE THEN SameHlp ELSE Hlp("none", total2)
              ELSE /\ h' = Waited(el2)
                   /\ IF el2 < h.timeout THEN SameHlp ELSE Hlp("none", -1)
    /\ UNCHANGED <<hpc, cmdbuff, receiveBuffer>>
    /\ SameOut /\ SameFs /\ Quiet

(***************************************************************************)
(* Host: flashmd_device_init                                               *)
(***************************************************************************)
\* where an operation goes on after flashmd_device_init returned FLASHMD_OK
Body(op) == op

\* flashmd_connect: send_command(CMD_CONNECT), then read_response(.., 2000)
flashmd_connect ==
    /\ hpc = "connect"
    /\ ~DevFast
    /\ \/ /\ SendFails
          /\ Fail("IO") /\ SameHlp /\ SameWire
       \/ /\ Ctl("connect.ret", Said(Enter(2000, ""), "note"))
          /\ Hlp("read_response", 0)
          /\ Out(result, Append(sent, CMD_CONNECT))
          /\ Wire(Packet(CMD_CONNECT, GoodMagic, <<>>), rx, receiveBuffer)
    /\ SameFs /\ Quiet

flashmd_connect_ret_lenient ==
    /\ hpc = "connect.ret" /\ helper = "none"
    /\ Ctl("check_id", h) /\ SameOut
    /\ SameHlp /\ SameWire /\ SameFs /\ Quiet

\* a connect whose failure leaves an emptied output file
flashmd_connect_ret_opens ==
    /\ hpc = "connect.ret" /\ helper = "none"
    /\ IF ret > 0 /\ \E k \in 1..Len(h.resp) : Contains(h.resp[k], "connected")
       THEN Ctl("check_id", h) /\ SameOut /\ SameFs
       ELSE Fail("TIMEOUT") /\ Fs(<<>>, "closed")
    /\ SameHlp /\ SameWire /\ Quiet

\* flashmd_connect after read_response; flashmd_device_init returns its error
flashmd_connect_ret ==
    /\ hpc = "connect.ret" /\ helper = "none"
    /\ IF ret > 0 /\ \E k \in 1..Len(h.resp) : Contains(h.resp[k], "connected")
       THEN Ctl("check_id", h) /\ SameOut
       ELSE Fail("TIMEOUT")
    /\ SameHlp /\ SameWire /\ SameFs /\ Quiet

\* flashmd_check_id: send_command(CMD_CHECK_ID), then read_all_responses(3000)
flashmd_check_id ==
    /\ hpc = "check_id"
    /\ ~DevFast
    /\ \/ /\ SendFails
          /\ Fail("IO") /\ SameHlp /\ SameWire
       \/ /\ Ctl("clear_buffer", Enter(3000, ""))
          /\ Hlp("read_all_responses", 0)
          /\ Out(result, Append(sent, CMD_CHECK_ID))
          /\ Wire(Packet(CMD_CHECK_ID, GoodMagic, <<>>), rx, receiveBuffer)
    /\ SameFs /\ Quiet

\* flashmd_clear_buffer: send_command(CMD_CLEAR_BUFFER), then
\* read_all_responses(2000); with FLASHMD_OK the operation goes on
flashmd_clear_buffer ==
    /\ hpc = "clear_buffer" /\ helper = "none"
    /\ ~DevFast
    /\ \/ /\ SendFails
          /\ Fail("IO") /\ SameHlp /\ SameWire
       \/ /\ Ctl(Body(h.op), Enter(2000, ""))
          /\ Hlp("read_all_responses", 0)
          /\ Out(result, Append(sent, CMD_CLEAR_BUFFER))
          /\ Wire(Packet(CMD_CLEAR_BUFFER, GoodMagic, <<>>), rx, receiveBuffer)
    /\ SameFs /\ Quiet

(***************************************************************************)
(* Host: flashmd_erase                                                     *)
(***************************************************************************)
\* a table whose last entry repeats the 4M one
flashmd_size_to_bytes_short(size) ==
    IF size = FLASHMD_SIZE_512K THEN Kb512 * DATA_CHUNK_SIZE
    ELSE IF size = FLASHMD_SIZE_1M THEN 2 * Kb512 * DATA_CHUNK_SIZE
    ELSE IF size = FLASHMD_SIZE_2M THEN 4 * Kb512 * DATA_CHUNK_SIZE
    ELSE IF size = FLASHMD_SIZE_4M THEN 8 * Kb512 * DATA_CHUNK_SIZE
    ELSE IF size = FLASHMD_SIZE_8M THEN 8 * Kb512 * DATA_CHUNK_SIZE
    ELSE 0

\* flashmd_size_to_bytes
flashmd_size_to_bytes(size) ==
    IF size = FLASHMD_SIZE_512K THEN Kb512 * DATA_CHUNK_SIZE
    ELSE IF size = FLASHMD_SIZE_1M THEN 2 * Kb512 * DATA_CHUNK_SIZE
    ELSE IF size = FLASHMD_SIZE_2M THEN 4 * Kb512 * DATA_CHUNK_SIZE
    ELSE IF size = FLASHMD_SIZE_4M THEN 8 * Kb512 * DATA_CHUNK_SIZE
    ELSE IF size = FLASHMD_SIZE_8M THEN 16 * Kb512 * DATA_CHUNK_SIZE
    ELSE 0

\* the comparisons made with < in place of <=
flashmd_kb_to_size_strict(kb) ==
    IF kb < Kb512 THEN FLASHMD_SIZE_512K
    ELSE IF kb < 2 * Kb512 THEN FLASHMD_SIZE_1M
    ELSE IF kb < 4 * Kb512 THEN FLASHMD_SIZE_2M
    ELSE IF kb < 8 * Kb512 THEN FLASHMD_SIZE_4M
    ELSE FLASHMD_SIZE_8M

\* flashmd_kb_to_size
flashmd_kb_to_size(kb) ==
    IF kb <= Kb512 THEN FLASHMD_SIZE_512K
    ELSE IF kb <= 2 * Kb512 THEN FLASHMD_SIZE_1M
    ELSE IF kb <= 4 * Kb512 THEN FLASHMD_SIZE_2M
    ELSE IF kb <= 8 * Kb512 THEN FLASHMD_SIZE_4M
    ELSE FLASHMD_SIZE_8M

\* flashmd_erase after flashmd_device_init: the erase command and the wait
\* for its end marker
flashmd_erase ==
    /\ hpc = "erase" /\ helper = "none"
    /\ ~DevFast
    /\ LET cmd == IF h.size_kb = 0 THEN CMD_FULL_ERASE ELSE CMD_SECTOR_ERASE
           params == IF h.size_kb = 0 THEN <<>> ELSE <<flashmd_kb_to_size(h.size_kb)>>
       IN \/ /\ SendFails
             /\ Return("IO") /\ SameHlp /\ SameWire
          \/ /\ Ctl("erase.ret",
                    Said(IF h.size_kb = 0 THEN Enter(3000, "SRAM ERASE FINISH")
                         ELSE Enter(5000, "ERASE OK"), "note"))
             /\ Hlp("read_until_complete", 0)
             /\ Out(result, Append(sent, cmd))
             /\ Wire(Packet(cmd, GoodMagic, params), rx, receiveBuffer)
    /\ SameFs /\ Quiet

\* flashmd_erase after read_until_complete: return FLASHMD_OK
flashmd_erase_ret ==
    /\ hpc = "erase.ret" /\ helper = "none"
    /\ Return("OK")
    /\ SameHlp /\ SameWire /\ SameFs /\ Quiet

(***************************************************************************)
(* Host: trim_rom_file and flashmd_read_rom                                *)
(***************************************************************************)

\* the last index of buffer[0 .. n-1] at seek_to that is not 0xFF, or -1
RECURSIVE LastData(_, _, _)
LastData(f, seek_to, i) ==
    IF i < 0 THEN -1
    ELSE IF f[seek_to + i + 1] # 255 THEN i
    ELSE LastData(f, seek_to, i - 1)

\* the scan of the last block alone
TrimScanOne(f, pos) ==
    IF pos > 0
    THEN LET seek_to == IF pos - TRIM_BUFFER_SIZE < 0 THEN 0 ELSE pos - TRIM_BUFFER_SIZE
             chunk_size == IF pos - TRIM_BUFFER_SIZE < 0 THEN pos ELSE TRIM_BUFFER_SIZE
             i == LastData(f, seek_to, chunk_size - 1)
         IN IF i >= 0 THEN seek_to + i + 1 ELSE seek_to
    ELSE 0

\* the block loop of trim_rom_file: new_size
RECURSIVE TrimScan(_, _)
TrimScan(f, pos) ==
    IF pos > 0
    THEN LET seek_to == IF pos - TRIM_BUFFER_SIZE < 0 THEN 0 ELSE pos - TRIM_BUFFER_SIZE
             chunk_size == IF pos - TRIM_BUFFER_SIZE < 0 THEN pos ELSE TRIM_BUFFER_SIZE
             i == LastData(f, seek_to, chunk_size - 1)
         IN IF i >= 0 THEN seek_to + i + 1 ELSE TrimScan(f, seek_to)
    ELSE 0

\* a trim that takes the last data byte with the padding
trim_rom_file_short(f) ==
    IF Len(f) <= 0 THEN f
    ELSE LET new_size == TrimScan(f, Len(f))
         IN IF new_size > 0 THEN SubSeq(f, 1, new_size - 1) ELSE <<>>

\* trim_rom_file: the file it leaves
trim_rom_file(f) ==
    IF Len(f) <= 0 THEN f
    ELSE LET new_size == TrimScan(f, Len(f))
         IN IF new_size < Len(f) THEN SubSeq(f, 1, new_size) ELSE f

\* the range of a uint32_t byte count in the scaled units: 2^32 bytes are
\* 4194304 KB in the source, 32 images of 512K here
UINT32_MAX == 32 * Kb512 * DATA_CHUNK_SIZE - 1

\* size_code, total_bytes and device_bytes of flashmd_read_rom; size_kb * 1024
\* is computed in uint32_t
ReadRomSizes(size_kb) ==
    IF size_kb = 0
    THEN [size_code |-> FLASHMD_SIZE_4M,
          total_bytes |-> 8 * Kb512 * DATA_CHUNK_SIZE,
          device_bytes |-> 8 * Kb512 * DATA_CHUNK_SIZE]
    ELSE LET code == flashmd_kb_to_size(size_kb)
             dev == flashmd_size_to_bytes(code)
             total == (size_kb * DATA_CHUNK_SIZE) % (UINT32_MAX + 1)
         IN [size_code |-> code,
             total_bytes |-> IF total > dev THEN dev ELSE total,
             device_bytes |-> dev]

device_chunks == h.device_bytes \div DATA_CHUNK_SIZE
is_last_chunk == h.i = device_chunks - 1
is_near_end_two == device_chunks >= 2 /\ h.i >= device_chunks - 2
\* i >= device_chunks - 3 in uint32_t: below three chunks the difference wraps
\* to a value no index reaches
is_near_end == device_chunks >= 3 /\ h.i >= device_chunks - 3

Uncapped(n) == n
\* if (saved < total_bytes) { cap to_write; fwrite; saved += to_write; }
Capped(n) ==
    IF h.saved + n > h.total_bytes THEN h.total_bytes - h.saved ELSE n
to_write(n) == IF h.saved < h.total_bytes THEN Capped(n) ELSE 0

\* fopen(filename, "wb"), send_command(CMD_READ_ROM, size_code), and the
\* read_response for the status line
flashmd_read_rom_send ==
    /\ hpc = "read_rom" /\ helper = "none"
    /\ ~DevFast
    /\ \/ /\ Fail("FILE")
          /\ SameHlp /\ SameWire /\ SameFs
       \/ /\ SendFails
          /\ Return("IO")
          /\ Fs(<<>>, "closed")
          /\ SameHlp /\ SameWire
       \/ /\ Ctl("read_rom.loop", [Enter(2000, "") EXCEPT !.saved = 0, !.i = 0])
          /\ Hlp("read_response", 0)
          /\ Out(result, Append(sent, CMD_READ_ROM))
          /\ Wire(Packet(CMD_READ_ROM, GoodMagic, <<h.size_code>>), rx, receiveBuffer)
          /\ Fs(<<>>, "open")
    /\ Quiet

\* for (i = 0; i < device_chunks && !interrupted; i++): the loop test and the
\* choice of the read
flashmd_read_rom_loop ==
    /\ hpc = "read_rom.loop" /\ helper = "none"
    /\ IF h.i < device_chunks /\ ~interrupted
       THEN IF is_last_chunk \/ is_near_end
            THEN /\ Ctl("read_rom.tolerant",
                        [h EXCEPT !.chunk_bytes_read = 0, !.elapsed = 0, !.buffer = <<>>,
                                  !.timeout = IF is_last_chunk THEN 10000 ELSE 8000])
                 /\ SameHlp
            ELSE /\ Ctl("read_rom.strict", Enter(5000, ""))
                 /\ Hlp("read_binary", 0)
       ELSE Ctl("read_rom.end", h) /\ SameHlp
    /\ SameOut /\ SameWire /\ SameFs /\ Quiet

\* the strict chunk after read_binary(buffer, DATA_CHUNK_SIZE, 5000)
flashmd_read_rom_strict ==
    /\ hpc = "read_rom.strict" /\ helper = "none"
    /\ IF ret < 0
       THEN Fail("IO") /\ Fs(file, "closed")
       ELSE /\ Ctl("read_rom.loop",
                   [h EXCEPT !.saved = h.saved + to_write(DATA_CHUNK_SIZE), !.i = h.i + 1])
            /\ Fs(file \o SubSeq(h.buffer, 1, to_write(DATA_CHUNK_SIZE)), fp)
            /\ SameOut
    /\ SameHlp /\ SameWire /\ Quiet

\* one turn of the tolerant loop:
\* while (chunk_bytes_read < DATA_CHUNK_SIZE && elapsed < timeout)
flashmd_read_rom_tolerant ==
    /\ hpc = "read_rom.tolerant"
    /\ \E u \in usb_read(DATA_CHUNK_SIZE - h.chunk_bytes_read,
                         Silent(h.elapsed, PollMs, h.timeout)) :
        LET got == h.chunk_bytes_read + u.n
            el2 == h.elapsed + PollMs
            Again(h2) == Ctl(IF h2.chunk_bytes_read < DATA_CHUNK_SIZE /\ h2.elapsed < h2.timeout
                             THEN "read_rom.tolerant" ELSE "read_rom.after", h2)
        IN /\ rx' = u.rest
           /\ IF u.n < 0
              THEN IF h.chunk_bytes_read > 0
                   THEN Ctl("read_rom.after", h) /\ SameOut /\ SameFs
                   ELSE IF is_last_chunk /\ h.elapsed < 5000
                   THEN /\ Again([h EXCEPT !.elapsed = h.elapsed + PollMs * 2])
                        /\ SameOut /\ SameFs
                   ELSE Fail("IO") /\ Fs(file, "closed")
              ELSE IF u.n > 0
              THEN /\ Again([h EXCEPT !.chunk_bytes_read = got, !.elapsed = 0,
                                      !.buffer = h.buffer \o u.bin])
                   /\ SameOut /\ SameFs
              ELSE /\ IF h.chunk_bytes_read > 0
                         /\ ((is_last_chunk /\ el2 > 2000) \/ el2 > 1500)
                      THEN Ctl("read_rom.after", [h EXCEPT !.elapsed = el2])
                      ELSE Again(Waited(el2))
                   /\ SameOut /\ SameFs
    /\ UNCHANGED <<cmdbuff, receiveBuffer>>
    /\ SameHlp /\ Quiet

\* after the tolerant loop: the second try for an empty last chunk, the error
\* for an empty earlier one, and the capped fwrite
flashmd_read_rom_after ==
    /\ hpc = "read_rom.after"
    /\ IF h.chunk_bytes_read = 0 /\ is_last_chunk
       THEN \E u \in usb_read(DATA_CHUNK_SIZE, Silent(0, 3000, 3000)) :
              /\ rx' = u.rest
              /\ IF u.n > 0
                 THEN /\ Ctl("read_rom.loop",
                             [h EXCEPT !.chunk_bytes_read = u.n, !.buffer = u.bin,
                                       !.saved = h.saved + to_write(u.n), !.i = h.i + 1])
                      /\ Fs(file \o SubSeq(u.bin, 1, to_write(u.n)), fp)
                 ELSE /\ Ctl("read_rom.end", [h EXCEPT !.expired = h.expired \/ u.n = 0])
                      /\ SameFs
              /\ SameOut
       ELSE IF h.chunk_bytes_read = 0
       THEN Fail("IO") /\ Fs(file, "closed") /\ rx' = rx
       ELSE /\ Ctl("read_rom.loop",
                   [h EXCEPT !.saved = h.saved + to_write(h.chunk_bytes_read), !.i = h.i + 1])
            /\ Fs(file \o SubSeq(h.buffer, 1, to_write(h.chunk_bytes_read)), fp)
            /\ SameOut /\ rx' = rx
    /\ UNCHANGED <<cmdbuff, receiveBuffer>>
    /\ SameHlp /\ Quiet

Unpadded(f) == f
\* the bytes the no-trim padding leaves in the file
Padded(f) ==
    IF h.saved < h.total_bytes
    THEN f \o [k \in 1..(h.total_bytes - h.saved) |-> 255]
    ELSE IF h.saved > h.total_bytes THEN SubSeq(f, 1, h.total_bytes)
    ELSE f

\* after the chunk loop: the interrupted return, the no-trim padding, fclose,
\* and read_all_responses(config, 2000)
flashmd_read_rom_end ==
    /\ hpc = "read_rom.end"
    /\ IF interrupted
       THEN Return("INTERRUPTED") /\ Fs(file, "closed") /\ SameHlp
       ELSE /\ IF h.no_trim /\ h.size_kb > 0
               THEN /\ Ctl("read_rom.trim", [Enter(2000, "") EXCEPT !.saved = h.total_bytes])
                    /\ Fs(Padded(file), "closed")
               ELSE /\ Ctl("read_rom.trim", Enter(2000, ""))
                    /\ Fs(file, "closed")
            /\ Hlp("read_all_responses", 0)
            /\ SameOut
    /\ SameWire /\ Quiet

\* after the drain: the closing line, and trim_rom_file unless no_trim: its
\* fopen(filename, "r+b"), whose failure it reports and flashmd_read_rom
\* ignores
flashmd_read_rom_trim ==
    /\ hpc = "read_rom.trim" /\ helper = "none"
    /\ IF h.no_trim
       THEN Finish("OK") /\ SameFs
       ELSE \/ Fail("OK") /\ SameFs
            \/ Ctl("read_rom.scan", Said(h, "note")) /\ Fs(file, "open") /\ SameOut
    /\ SameHlp /\ SameWire /\ Quiet

\* trim_rom_file with the file open, and its return value: a failing fseek
\* or fread closes the file and returns -1 without a line, an empty file is
\* left alone, a failing ftruncate is reported, else the file is cut to
\* new_size; flashmd_read_rom returns FLASHMD_OK
trim_rom_file_scan ==
    /\ hpc = "read_rom.scan"
    /\ LET new_size == TrimScan(file, Len(file))
       IN \/ Return("OK") /\ Fs(file, "closed") /\ Hlp("none", -1)
          \/ /\ Len(file) <= 0
             /\ Return("OK") /\ Fs(file, "closed") /\ Hlp("none", Len(file))
          \/ /\ Len(file) > 0 /\ new_size < Len(file)
             /\ Fail("OK") /\ Fs(file, "closed") /\ Hlp("none", new_size)
          \/ /\ Len(file) > 0
             /\ Finish("OK") /\ Fs(trim_rom_file(file), "closed") /\ Hlp("none", new_size)
    /\ SameWire /\ Quiet

(***************************************************************************)
(* Host: flashmd_read_sram                                                 *)
(***************************************************************************)
\* fopen(filename, "wb"), send_command(CMD_READ_SRAM, {0x01}), and the
\* read_response for the status line
flashmd_read_sram_send ==
    /\ hpc = "read_sram" /\ helper = "none"
    /\ ~DevFast
    /\ \/ /\ Fail("FILE")
          /\ SameHlp /\ SameWire /\ SameFs
       \/ /\ SendFails
          /\ Return("IO")
          /\ Fs(<<>>, "closed")
          /\ SameHlp /\ SameWire
       \/ /\ Ctl("read_sram.loop",
                 Said([Enter(2000, "") EXCEPT !.total_bytes = SramBytes, !.received = 0], "note"))
          /\ Hlp("read_response", 0)
          /\ Out(result, Append(sent, CMD_READ_SRAM))
          /\ Wire(Packet(CMD_READ_SRAM, GoodMagic, <<1>>), rx, receiveBuffer)
          /\ Fs(<<>>, "open")
    /\ Quiet

flashmd_read_sram_loop_deaf ==
    /\ hpc = "read_sram.loop" /\ helper = "none"
    /\ IF h.received < h.total_bytes
       THEN /\ Ctl("read_sram.chunk", Enter(5000, ""))
            /\ Hlp("read_binary", 0)
            /\ SameOut /\ SameFs
       ELSE IF interrupted
       THEN Return("INTERRUPTED") /\ Fs(file, "closed") /\ SameHlp
       ELSE /\ Ctl("read_sram.ret", Enter(2000, ""))
            /\ Hlp("read_all_responses", 0)
            /\ Fs(file, "closed")
            /\ SameOut
    /\ SameWire /\ Quiet

\* while (received < total_bytes && !interrupted), and what follows the loop
flashmd_read_sram_loop ==
    /\ hpc = "read_sram.loop" /\ helper = "none"
    /\ IF h.received < h.total_bytes /\ ~interrupted
       THEN /\ Ctl("read_sram.chunk", Enter(5000, ""))
            /\ Hlp("read_binary", 0)
            /\ SameOut /\ SameFs
       ELSE IF interrupted
       THEN Return("INTERRUPTED") /\ Fs(file, "closed") /\ SameHlp
       ELSE /\ Ctl("read_sram.ret", Enter(2000, ""))
            /\ Hlp("read_all_responses", 0)
            /\ Fs(file, "closed")
            /\ SameOut
    /\ SameWire /\ Quiet

flashmd_read_sram_chunk_leaky ==
    /\ hpc = "read_sram.chunk" /\ helper = "none"
    /\ IF ret < 0
       THEN Return("IO") /\ SameFs
       ELSE /\ Ctl("read_sram.loop", [h EXCEPT !.received = h.received + DATA_CHUNK_SIZE])
            /\ Fs(file \o h.buffer, fp)
            /\ SameOut
    /\ SameHlp /\ SameWire /\ Quiet

\* the chunk after read_binary(buffer, DATA_CHUNK_SIZE, 5000)
flashmd_read_sram_chunk ==
    /\ hpc = "read_sram.chunk" /\ helper = "none"
    /\ IF ret < 0
       THEN Return("IO") /\ Fs(file, "closed")
       ELSE /\ Ctl("read_sram.loop", [h EXCEPT !.received = h.received + DATA_CHUNK_SIZE])
            /\ Fs(file \o h.buffer, fp)
            /\ SameOut
    /\ SameHlp /\ SameWire /\ Quiet

\* after the drain: return FLASHMD_OK
flashmd_read_sram_ret ==
    /\ hpc = "read_sram.ret" /\ helper = "none"
    /\ Finish("OK")
    /\ SameHlp /\ SameWire /\ SameFs /\ Quiet

(***************************************************************************)
(* Host: flashmd_write_rom and flashmd_write_sram                          *)
(***************************************************************************)
\* what marks a data chunk in the list of the writes of an operation
DATA == 0

\* the chunk at offset written of the input file: to_read bytes of it, the
\* rest of the buffer filled with fill
FileChunk(fill, size) ==
    [k \in 1..DATA_CHUNK_SIZE |->
        IF h.written + k <= size THEN wfile[h.written + k] ELSE fill]

\* written += DATA_CHUNK_SIZE; addj++; if (addj >= 64) { addj = 0; bank++; }
NextPage ==
    [h EXCEPT !.written = h.written + DATA_CHUNK_SIZE,
              !.addj = IF h.addj + 1 >= PagesPerBank THEN 0 ELSE h.addj + 1,
              !.bank = IF h.addj + 1 >= PagesPerBank THEN (h.bank + 1) % 256 ELSE h.bank]

\* fopen(filename, "rb") and the size of the write
flashmd_write_rom_open ==
    /\ hpc = "write_rom" /\ helper = "none"
    /\ \/ Fail("FILE") /\ SameFs
       \/ IF Len(wfile) <= 0
          THEN Fail("FILE") /\ Fs(file, "closed")
          ELSE /\ Ctl("write_rom.loop",
                      [h EXCEPT !.file_size = Len(wfile), !.written = 0, !.bank = 0, !.addj = 0,
                                !.write_size = IF h.size_kb > 0
                                               THEN Min((h.size_kb * DATA_CHUNK_SIZE)
                                                            % (UINT32_MAX + 1),
                                                        Len(wfile))
                                               ELSE Len(wfile),
                                !.said = "note"])
               /\ Fs(file, "open")
               /\ SameOut
    /\ SameHlp /\ SameWire /\ Quiet

\* while (written < write_size && !interrupted): the chunk goes out; after
\* the loop the closing CMD_CLEAR_BUFFER and read_all_responses(config, 1000)
flashmd_write_rom_loop ==
    /\ hpc = "write_rom.loop" /\ helper = "none"
    /\ ~DevFast
    /\ IF h.written < h.write_size /\ ~interrupted
       THEN \/ /\ SendFails
               /\ Return("IO") /\ SameHlp /\ SameWire /\ Fs(file, "closed")
            \/ /\ Ctl("write_rom.cmd", h)
               /\ Out(result, Append(sent, DATA))
               /\ SameFs
               /\ Wire(cmdbuff, rx, FileChunk(255, h.write_size))
               /\ SameHlp
       ELSE IF interrupted
       THEN Return("INTERRUPTED") /\ SameHlp /\ SameWire /\ Fs(file, "closed")
       ELSE /\ Ctl("write_rom.ret", Enter(1000, ""))
            /\ Hlp("read_all_responses", 0)
            /\ Fs(file, "closed")
            /\ \/ SendFails /\ SameOut /\ SameWire
               \/ /\ Out(result, Append(sent, CMD_CLEAR_BUFFER))
                  /\ Wire(Packet(CMD_CLEAR_BUFFER, GoodMagic, <<>>), rx, receiveBuffer)
    /\ Quiet

\* send_command(CMD_WRITE_ROM, {addj, bank}) and the read_response for the
\* acknowledgement
flashmd_write_rom_cmd ==
    /\ hpc = "write_rom.cmd"
    /\ ~DevFast
    /\ \/ /\ SendFails
          /\ Return("IO") /\ SameHlp /\ SameWire /\ Fs(file, "closed")
       \/ /\ Ctl("write_rom.ack", Enter(5000, ""))
          /\ Hlp("read_response", 0)
          /\ SameFs
          /\ Out(result, Append(sent, CMD_WRITE_ROM))
          /\ Wire(Packet(CMD_WRITE_ROM, GoodMagic, <<h.addj, h.bank>>), rx, receiveBuffer)
    /\ Quiet

flashmd_write_rom_ack_lenient ==
    /\ hpc = "write_rom.ack" /\ helper = "none"
    /\ Ctl("write_rom.loop", NextPage)
    /\ SameOut /\ SameHlp /\ SameWire /\ SameFs /\ Quiet

\* if (n <= 0) return FLASHMD_ERR_TIMEOUT; else the next page
flashmd_write_rom_ack ==
    /\ hpc = "write_rom.ack" /\ helper = "none"
    /\ IF ret <= 0
       THEN Fail("TIMEOUT") /\ Fs(file, "closed")
       ELSE Ctl("write_rom.loop", NextPage) /\ SameOut /\ SameFs
    /\ SameHlp /\ SameWire /\ Quiet

\* after the drain: return FLASHMD_OK
flashmd_write_rom_ret ==
    /\ hpc = "write_rom.ret" /\ helper = "none"
    /\ Finish("OK")
    /\ SameHlp /\ SameWire /\ SameFs /\ Quiet

\* fopen(filename, "rb") and the size of the write, at most 32K
flashmd_write_sram_open ==
    /\ hpc = "write_sram" /\ helper = "none"
    /\ \/ Fail("FILE") /\ SameFs
       \/ /\ Ctl("write_sram.loop",
                 [h EXCEPT !.file_size = Min(Len(wfile), SramBytes),
                           !.written = 0, !.bank = 0, !.addj = 0, !.said = "note"])
          /\ Fs(file, "open")
          /\ SameOut
    /\ SameHlp /\ SameWire /\ Quiet

\* while (written < file_size && !interrupted): the chunk goes out; after
\* the loop the closing CMD_CLEAR_BUFFER and read_all_responses(config, 1000)
flashmd_write_sram_loop ==
    /\ hpc = "write_sram.loop" /\ helper = "none"
    /\ ~DevFast
    /\ IF h.written < h.file_size /\ ~interrupted
       THEN \/ /\ SendFails
               /\ Return("IO") /\ SameHlp /\ SameWire /\ Fs(file, "closed")
            \/ /\ Ctl("write_sram.cmd", h)
               /\ Out(result, Append(sent, DATA))
               /\ SameFs
               /\ Wire(cmdbuff, rx, FileChunk(0, h.file_size))
               /\ SameHlp
       ELSE IF interrupted
       THEN Return("INTERRUPTED") /\ SameHlp /\ SameWire /\ Fs(file, "closed")
       ELSE /\ Ctl("write_sram.ret", Enter(1000, ""))
            /\ Hlp("read_all_responses", 0)
            /\ Fs(file, "closed")
            /\ \/ SendFails /\ SameOut /\ SameWire
               \/ /\ Out(result, Append(sent, CMD_CLEAR_BUFFER))
                  /\ Wire(Packet(CMD_CLEAR_BUFFER, GoodMagic, <<>>), rx, receiveBuffer)
    /\ Quiet

\* send_command(CMD_WRITE_SRAM, {addj, bank}) and the read_response for the
\* acknowledgement
flashmd_write_sram_cmd ==
    /\ hpc = "write_sram.cmd"
    /\ ~DevFast
    /\ \/ /\ SendFails
          /\ Return("IO") /\ SameHlp /\ SameWire /\ Fs(file, "closed")
       \/ /\ Ctl("write_sram.ack", Enter(5000, ""))
          /\ Hlp("read_response", 0)
          /\ SameFs
          /\ Out(result, Append(sent, CMD_WRITE_SRAM))
          /\ Wire(Packet(CMD_WRITE_SRAM, GoodMagic, <<h.addj, h.bank>>), rx, receiveBuffer)
    /\ Quiet

\* the result of read_response is not looked at: the next page
flashmd_write_sram_ack ==
    /\ hpc = "write_sram.ack" /\ helper = "none"
    /\ Ctl("write_sram.loop", NextPage)
    /\ SameOut /\ SameHlp /\ SameWire /\ SameFs /\ Quiet

\* after the drain: return FLASHMD_OK
flashmd_write_sram_ret ==
    /\ hpc = "write_sram.ret" /\ helper = "none"
    /\ Finish("OK")
    /\ SameHlp /\ SameWire /\ SameFs /\ Quiet

(***************************************************************************)
(* Host: the front end                                                     *)
(***************************************************************************)
\* flashmd_set_interrupted(1) from the signal handler
flashmd_set_interrupted ==
    /\ hpc # "idle" /\ ~interrupted
    /\ interrupted' = TRUE
    /\ UNCHANGED <<devVars, hpc, h, helper, ret, file, fp, result, sent, wfile,
                   nops, faulty, gui>>

\* A front end calls one operation of the Transfer Engine; the command-line
\* front end is a new process for each, so interrupted starts cleared.
HostStart(op, size_kb, no_trim) ==
    /\ hpc = "idle"
    /\ nops < MaxOps
    /\ nops' = nops + 1
    /\ interrupted' = FALSE
    /\ Ctl("connect",
           IF op = "read_rom"
           THEN [H0 EXCEPT !.op = op, !.size_kb = size_kb, !.no_trim = no_trim,
                           !.size_code = ReadRomSizes(size_kb).size_code,
                           !.total_bytes = ReadRomSizes(size_kb).total_bytes,
                           !.device_bytes = ReadRomSizes(size_kb).device_bytes]
           ELSE [H0 EXCEPT !.op = op, !.size_kb = size_kb, !.no_trim = no_trim])
    /\ Hlp("none", 0)
    /\ Out("running", <<>>)
    /\ UNCHANGED <<devVars, file, fp, wfile, faulty, gui>>

\* the input file of the write operations: one chunk and a byte
WriteImage == [k \in 1..(DATA_CHUNK_SIZE + 1) |-> (16 * k) % 255]

HostInit ==
    /\ hpc = "idle"
    /\ h = H0
    /\ helper = "none"
    /\ ret = 0
    /\ file = <<>>
    /\ fp = "closed"
    /\ wfile = WriteImage
    /\ interrupted = FALSE
    /\ result = "none"
    /\ sent = <<>>
    /\ nops = 0

(***************************************************************************)
(* The graphical front end: start_operation, the worker thread, the USB    *)
(* handler process and its pipes                                           *)
(***************************************************************************)
\* button presses the model follows
MaxClicks == 3
\* messages the USB handler may have in the pipe to the GUI
MaxPipe == 2

GuiOps == {"OP_CONNECT", "OP_READ_ROM"}
GuiResults == {"OK", "IO"}

\* the state after main() has set up the window: nothing runs, the pipes are
\* empty, the USB handler waits in read()
Gui0 == [using_ipc |-> FALSE, operation_running |-> 0, current_operation |-> "OP_NONE",
         operation_result |-> "OK", workers |-> <<>>,
         usb |-> [pc |-> "read", operation |-> "OP_NONE", result |-> "OK"],
         pipe_to_usb |-> <<>>, pipe_to_gui |-> <<>>, clicks |-> 0, started |-> 0]

\* everything but the front end
engineVars == <<devVars, hpc, h, helper, ret, file, fp, result, sent, wfile, interrupted,
                nops, faulty>>

Remove(q, k) == SubSeq(q, 1, k - 1) \o SubSeq(q, k + 1, Len(q))

\* a start_operation that does not look at operation_running
start_operation_unguarded(op) ==
    /\ gui.clicks < MaxClicks
    /\ LET g == [gui EXCEPT !.clicks = @ + 1, !.started = @ + 1,
                            !.current_operation = op, !.operation_running = 1]
       IN gui' = IF gui.using_ipc
                 THEN [g EXCEPT !.pipe_to_usb = Append(@, op)]
                 ELSE [g EXCEPT !.workers = Append(@, [pc |-> "open", result |-> "OK"])]
    /\ UNCHANGED engineVars

\* start_operation(op), called by the main loop for a button: returns at once
\* while operation_running is set; else sets it and sends the command to the
\* USB handler (send_ipc_command) or creates the worker thread
start_operation(op) ==
    /\ gui.clicks < MaxClicks
    /\ LET g == [gui EXCEPT !.clicks = @ + 1, !.started = @ + 1,
                            !.current_operation = op, !.operation_running = 1]
       IN gui' = IF gui.operation_running # 0 THEN [gui EXCEPT !.clicks = @ + 1]
                 ELSE IF gui.using_ipc
                 THEN [g EXCEPT !.pipe_to_usb = Append(@, op)]
                 ELSE [g EXCEPT !.workers = Append(@, [pc |-> "open", result |-> "OK"])]
    /\ UNCHANGED engineVars

\* worker_thread_func: flashmd_open(); on failure goto done
worker_open(k) ==
    /\ gui.workers[k].pc = "open"
    /\ \/ gui' = [gui EXCEPT !.workers[k].pc = "run"]
       \/ gui' = [gui EXCEPT !.workers[k] = [pc |-> "done", result |-> "OPEN"]]
    /\ UNCHANGED engineVars

\* the switch on state.current_operation: one operation of the Transfer Engine
worker_run(k) ==
    /\ gui.workers[k].pc = "run"
    /\ \E r \in GuiResults : gui' = [gui EXCEPT !.workers[k] = [pc |-> "close", result |-> r]]
    /\ UNCHANGED engineVars

\* flashmd_close()
worker_close(k) ==
    /\ gui.workers[k].pc = "close"
    /\ gui' = [gui EXCEPT !.workers[k].pc = "done"]
    /\ UNCHANGED engineVars

\* done: under state_mutex operation_running = 0 and the result; return NULL
worker_done(k) ==
    /\ gui.workers[k].pc = "done"
    /\ gui' = [gui EXCEPT !.operation_running = 0,
                          !.operation_result = gui.workers[k].result,
                          !.workers = Remove(@, k)]
    /\ UNCHANGED engineVars

worker_thread_func ==
    \E k \in 1..Len(gui.workers) :
        worker_open(k) \/ worker_run(k) \/ worker_close(k) \/ worker_done(k)

\* usb_handler_loop: read(read_fd, &cmd, sizeof(cmd))
usb_handler_read ==
    /\ gui.usb.pc = "read" /\ gui.pipe_to_usb # <<>>
    /\ gui' = [gui EXCEPT !.usb = [pc |-> "open", operation |-> Head(gui.pipe_to_usb),
                                   result |-> "OK"],
                          !.pipe_to_usb = Tail(@)]
    /\ UNCHANGED engineVars

\* flashmd_open(); on failure a log message and goto send_result
usb_handler_open ==
    /\ gui.usb.pc = "open"
    /\ \/ gui' = [gui EXCEPT !.usb.pc = "run"]
       \/ /\ Len(gui.pipe_to_gui) < MaxPipe
          /\ gui' = [gui EXCEPT !.usb.pc = "send", !.usb.result = "OPEN",
                                !.pipe_to_gui = Append(@, [type |-> "IPC_MSG_LOG",
                                                           result |-> "OK"])]
    /\ UNCHANGED engineVars

\* the operation of the Transfer Engine: its callbacks write progress and log
\* messages, then it returns
usb_handler_run ==
    /\ gui.usb.pc = "run"
    /\ \/ /\ Len(gui.pipe_to_gui) < MaxPipe
          /\ \E t \in {"IPC_MSG_PROGRESS", "IPC_MSG_LOG"} :
                gui' = [gui EXCEPT !.pipe_to_gui = Append(@, [type |-> t, result |-> "OK"])]
       \/ \E r \in GuiResults : gui' = [gui EXCEPT !.usb.pc = "close", !.usb.result = r]
    /\ UNCHANGED engineVars

\* flashmd_close()
usb_handler_close ==
    /\ gui.usb.pc = "close"
    /\ gui' = [gui EXCEPT !.usb.pc = "send"]
    /\ UNCHANGED engineVars

\* send_result: the result message; back to read()
usb_handler_send ==
    /\ gui.usb.pc = "send"
    /\ Len(gui.pipe_to_gui) < MaxPipe
    /\ gui' = [gui EXCEPT !.usb.pc = "read",
                          !.pipe_to_gui = Append(@, [type |-> "IPC_MSG_RESULT",
                                                     result |-> gui.usb.result])]
    /\ UNCHANGED engineVars

\* the messages of a pipe content that are results
Results(q) == {k \in 1..Len(q) : q[k].type = "IPC_MSG_RESULT"}
MaxOf(S) == CHOOSE k \in S : \A j \in S : j <= k

\* process_ipc_messages: every message waiting in the pipe is read; a result
\* message clears operation_running and stores the result
process_ipc_messages ==
    /\ gui.using_ipc /\ gui.pipe_to_gui # <<>>
    /\ LET q == gui.pipe_to_gui IN
       gui' = IF Results(q) = {} THEN [gui EXCEPT !.pipe_to_gui = <<>>]
              ELSE [gui EXCEPT !.pipe_to_gui = <<>>, !.operation_running = 0,
                               !.operation_result = q[MaxOf(Results(q))].result]
    /\ UNCHANGED engineVars

(***************************************************************************)
(* The device alone, fed by a host that respects the flow control: packets *)
(* and data chunks arrive only while the dispatcher is idle.               *)
(***************************************************************************)
DevIdle == dscript = <<>> /\ Handler = <<>>

BadMagics == {<<0, 0, 0, 0>>, <<MAGIC_1, MAGIC_2, MAGIC_3, 0>>}

PacketInputs ==
    {Packet(op, m, <<p5, p6, 0, 0>>) :
        op \in Opcodes, m \in {GoodMagic} \cup BadMagics,
        p5 \in {0, 1}, p6 \in {0, 1}}

ChunkInputs == {[k \in 1..DATA_CHUNK_SIZE |-> IF k = 1 THEN 240 ELSE 255]}

\* the cartridge image: n words of data, then erased flash
\* a cartridge with data in its first words and in the last word of its
\* first 512K, erased elsewhere
RomImage ==
    [a \in 0..(FlashWords - 1) |->
        IF a < 2 * ChunkWords \/ a = Kb512 * ChunkWords - 1
        THEN ((2 * a) % 251) * 256 + ((2 * a + 1) % 251) ELSE 65535]

FlashImage(n) ==
    [a \in 0..(FlashWords - 1) |->
        IF a < n THEN ((2 * a) % 251) * 256 + ((2 * a + 1) % 251) ELSE 65535]

SramImage == [a \in 0..(SramBytes - 1) |-> (a + 100) % 256]

DevInit ==
    /\ cmdbuff = ZeroPacket
    /\ receiveBuffer = [k \in 1..DATA_CHUNK_SIZE |-> 0]
    /\ busMode = "write"
    /\ sramEn = FALSE
    /\ rx = <<>>
    /\ dscript = <<>>
    /\ dj = 0
    /\ dropped = 0
    /\ npackets = 0

\* the USB receive callback stores a 64-byte command packet
Receive(pkt) ==
    /\ DevIdle
    /\ npackets < MaxPackets
    /\ npackets' = npackets + 1
    /\ cmdbuff' = pkt
    /\ UNCHANGED <<receiveBuffer, busMode, sramEn, flash, sram, rx, dscript, dj,
                   dropped, chipKnown, chip, jitter, hostVars>>

\* the USB receive callback stores a 1024-byte data chunk
ReceiveData(chunk) ==
    /\ DevIdle
    /\ npackets < MaxPackets
    /\ npackets' = npackets + 1
    /\ receiveBuffer' = chunk
    /\ UNCHANGED <<cmdbuff, busMode, sramEn, flash, sram, rx, dscript, dj,
                   dropped, chipKnown, chip, jitter, hostVars>>

\* the host collects the transfer that waits on the IN endpoint
Collect ==
    /\ rx # <<>>
    /\ rx' = Tail(rx)
    /\ UNCHANGED <<cmdbuff, receiveBuffer, busMode, sramEn, flash, sram, dscript,
                   dj, dropped, chipKnown, chip, jitter, npackets, hostVars>>

InitDev ==
    /\ DevInit
    /\ chip = Chip0
    /\ HostInit
    /\ faulty = FALSE
    /\ gui = Gui0
    /\ flash = FlashImage(2 * ChunkWords)
    /\ sram = SramImage
    /\ chipKnown \in BOOLEAN
    /\ jitter = FALSE

NextDev ==
    \/ DevDispatch
    \/ DevStep
    \/ \E pkt \in PacketInputs : Receive(pkt)
    \/ \E chunk \in ChunkInputs : ReceiveData(chunk)
    \/ Collect

SpecDev == InitDev /\ [][NextDev]_vars

(***************************************************************************)
(* The device alone with a chip that takes its time: the bus cycles of the *)
(* flash routines and what the status reads make of them.                  *)
(***************************************************************************)
\* the handlers that talk to the flash chip
FlashOpcodes == {CMD_WRITE_ROM, CMD_CHECK_ID, CMD_FULL_ERASE, CMD_SECTOR_ERASE,
                 CMD_ERASE_ADDR}

\* chunks whose first word is erased, has one byte to program, or both
BusChunks ==
    {[k \in 1..DATA_CHUNK_SIZE |-> 255],
     [k \in 1..DATA_CHUNK_SIZE |-> IF k = 1 THEN 240 ELSE 255],
     [k \in 1..DATA_CHUNK_SIZE |-> IF k = 2 THEN 15 ELSE 255],
     [k \in 1..DATA_CHUNK_SIZE |-> 18]}

\* what the device holds when the dispatcher finds the packet: the packet, the
\* chunk received last, the direction the handler before left the bus in,
\* and the cartridge
BusInputs ==
    {[pkt |-> Packet(op, GoodMagic, <<p5, p6, 0, 0>>), chunk |-> chunk,
      mode |-> mode, known |-> known] :
        op \in FlashOpcodes, p5 \in 0..5, p6 \in {0, 1}, chunk \in BusChunks,
        mode \in {"write", "read"}, known \in BOOLEAN}

\* each input once: the chunk and the direction matter to 0x0B (the other
\* handlers set the direction before their first cycle), the size code to
\* 0x1E (and the address bytes to its size code 0), the cartridge to 0x0D
Told(in) ==
    LET op == in.pkt[1]
    IN /\ op # CMD_WRITE_ROM => in.chunk = [k \in 1..DATA_CHUNK_SIZE |-> 255]
       /\ op # CMD_WRITE_ROM => in.mode = "write"
       /\ op # CMD_SECTOR_ERASE => in.pkt[6] <= 1
       /\ op = CMD_SECTOR_ERASE /\ in.pkt[6] # 0 => in.pkt[7] = 0
       /\ op # CMD_CHECK_ID => in.known

InitBus ==
    /\ \E in \in {x \in BusInputs : Told(x)} :
          /\ cmdbuff = in.pkt
          /\ receiveBuffer = in.chunk
          /\ busMode = in.mode
          /\ chipKnown = in.known
    /\ sramEn = FALSE
    /\ rx = <<>>
    /\ dscript = <<>>
    /\ dj = 0
    /\ dropped = 0
    /\ npackets = 1
    /\ chip = [Chip0 EXCEPT !.slow = TRUE]
    /\ HostInit
    /\ faulty = FALSE
    /\ gui = Gui0
    /\ flash = FlashImage(2 * ChunkWords)
    /\ sram = SramImage
    /\ jitter = FALSE

NextBus ==
    \/ DevDispatch
    \/ DevStep
    \/ Collect

SpecBus == InitBus /\ [][NextBus]_vars

(***************************************************************************)
(* One operation against the device, over a transport that may fragment,   *)
(* stall and fail                                                          *)
(***************************************************************************)
\* the sizes a readRom is asked for: auto, below and at the 512K image, and
\* the size whose byte count wraps to 0 in uint32_t
ReadSizes == {0, Kb512 - 1, Kb512, 32 * Kb512}

HostCommon ==
    \/ read_response
    \/ read_all_responses
    \/ flashmd_connect
    \/ flashmd_connect_ret
    \/ flashmd_check_id
    \/ flashmd_clear_buffer
    \/ flashmd_set_interrupted

ReadRomSteps ==
    \/ flashmd_read_rom_send
    \/ flashmd_read_rom_loop
    \/ flashmd_read_rom_strict
    \/ flashmd_read_rom_tolerant
    \/ flashmd_read_rom_after
    \/ flashmd_read_rom_end
    \/ flashmd_read_rom_trim
    \/ trim_rom_file_scan

ReadSramSteps ==
    \/ flashmd_read_sram_send
    \/ flashmd_read_sram_loop
    \/ flashmd_read_sram_chunk
    \/ flashmd_read_sram_ret

WriteSteps ==
    \/ flashmd_write_rom_open
    \/ flashmd_write_rom_loop
    \/ flashmd_write_rom_cmd
    \/ flashmd_write_rom_ack
    \/ flashmd_write_rom_ret
    \/ flashmd_write_sram_open
    \/ flashmd_write_sram_loop
    \/ flashmd_write_sram_cmd
    \/ flashmd_write_sram_ack
    \/ flashmd_write_sram_ret

EraseSteps ==
    \/ read_until_complete
    \/ read_until_complete_drain
    \/ flashmd_erase
    \/ flashmd_erase_ret

HostSteps ==
    \/ HostCommon
    \/ read_binary
    \/ ReadRomSteps
    \/ ReadSramSteps
    \/ WriteSteps
    \/ EraseSteps

InitOp ==
    /\ DevInit
    /\ chip = Chip0
    /\ HostInit
    /\ flash = RomImage
    /\ sram = SramImage
    /\ chipKnown = TRUE
    /\ jitter \in BOOLEAN
    /\ faulty \in BOOLEAN
    /\ gui = Gui0

\* one operation: readRom with auto reads its 4 MB over a transport that does
\* not stall
NextOp ==
    \/ DevDispatch
    \/ DevStep
    \/ HostSteps
    \/ \E size_kb \in ReadSizes, no_trim \in BOOLEAN :
          nops = 0 /\ (size_kb = 0 => ~jitter) /\ HostStart("read_rom", size_kb, no_trim)
    \/ nops = 0 /\ HostStart("read_sram", 0, FALSE)
    \/ nops = 0 /\ HostStart("write_rom", 0, FALSE)
    \/ nops = 0 /\ HostStart("write_sram", 0, FALSE)
    \/ \E size_kb \in {0, Kb512} : nops = 0 /\ HostStart("erase", size_kb, FALSE)

SpecOp == InitOp /\ [][NextOp]_vars

(***************************************************************************)
(* Sequences of operations against the device, over a transport that       *)
(* delivers whole transfers                                                *)
(***************************************************************************)
InitFlow ==
    /\ DevInit
    /\ chip = Chip0
    /\ HostInit
    /\ flash = FlashImage(2 * ChunkWords)
    /\ sram = SramImage
    /\ chipKnown \in BOOLEAN
    /\ jitter = FALSE
    /\ faulty = FALSE
    /\ gui = Gui0

NextFlow ==
    \/ DevDispatch
    \/ DevStep
    \/ HostSteps
    \/ HostStart("read_rom", Kb512 - 1, FALSE)
    \/ HostStart("read_sram", 0, FALSE)
    \/ HostStart("write_rom", 0, FALSE)
    \/ HostStart("write_sram", 0, FALSE)
    \/ \E size_kb \in {0, Kb512} : HostStart("erase", size_kb, FALSE)

SpecFlow == InitFlow /\ [][NextFlow]_vars

(***************************************************************************)
(* The page counters of flashmd_write_rom alone, for an input file longer  *)
(* than the 256 banks a uint8_t bank counts; every chunk is acknowledged.  *)
(***************************************************************************)
\* chunks of the input file
LongFile == 256 * PagesPerBank + 2

\* one pass of the chunk loop: the command with {addj, bank} goes out, then
\* written += DATA_CHUNK_SIZE; addj++; if (addj >= 64) { addj = 0; bank++; }
flashmd_write_rom_pages ==
    /\ hpc = "write_rom.pages"
    /\ h.written < h.write_size
    /\ cmdbuff' = Packet(CMD_WRITE_ROM, GoodMagic, <<h.addj, h.bank>>)
    /\ h' = NextPage
    /\ UNCHANGED <<receiveBuffer, busMode, sramEn, flash, sram, rx, dscript, dj,
                   dropped, chipKnown, chip, jitter, npackets, hpc, helper, ret, file,
                   fp, wfile, interrupted, result, sent, nops, faulty, gui>>

InitPages ==
    /\ DevInit
    /\ chip = Chip0
    /\ flash = FlashImage(0)
    /\ sram = SramImage
    /\ chipKnown = TRUE
    /\ jitter = FALSE
    /\ faulty = FALSE
    /\ gui = Gui0
    /\ hpc = "write_rom.pages"
    /\ h = [H0 EXCEPT !.op = "write_rom", !.write_size = LongFile * DATA_CHUNK_SIZE,
                      !.file_size = LongFile * DATA_CHUNK_SIZE]
    /\ helper = "none"
    /\ ret = 0
    /\ file = <<>>
    /\ fp = "open"
    /\ wfile = WriteImage
    /\ interrupted = FALSE
    /\ result = "running"
    /\ sent = <<CMD_CONNECT, CMD_CHECK_ID, CMD_CLEAR_BUFFER>>
    /\ nops = 1

NextPages == flashmd_write_rom_pages

SpecPages == InitPages /\ [][NextPages]_vars

(***************************************************************************)
(* The sizes of flashmd_read_rom and flashmd_write_rom for every size_kb a *)
(* uint32_t holds, and the page counters for the long input file           *)
(***************************************************************************)
InitWidth ==
    /\ DevInit
    /\ chip = Chip0
    /\ flash = FlashImage(0)
    /\ sram = SramImage
    /\ chipKnown = TRUE
    /\ jitter = FALSE
    /\ faulty = FALSE
    /\ gui = Gui0
    /\ helper = "none"
    /\ ret = 0
    /\ file = <<>>
    /\ wfile = WriteImage
    /\ interrupted = FALSE
    /\ \/ /\ hpc = "idle" /\ h = H0 /\ nops = 0
          /\ fp = "closed" /\ result = "none" /\ sent = <<>>
       \/ /\ hpc = "write_rom" /\ nops = 1
          /\ \E size_kb \in 0..UINT32_MAX :
                h = [H0 EXCEPT !.op = "write_rom", !.size_kb = size_kb]
          /\ fp = "closed" /\ result = "running"
          /\ sent = <<CMD_CONNECT, CMD_CHECK_ID, CMD_CLEAR_BUFFER>>
       \/ /\ hpc = "write_rom.pages" /\ nops = 1
          /\ h = [H0 EXCEPT !.op = "write_rom", !.write_size = LongFile * DATA_CHUNK_SIZE,
                            !.file_size = LongFile * DATA_CHUNK_SIZE]
          /\ fp = "open" /\ result = "running"
          /\ sent = <<CMD_CONNECT, CMD_CHECK_ID, CMD_CLEAR_BUFFER>>

NextWidth ==
    \/ \E size_kb \in 0..UINT32_MAX : HostStart("read_rom", size_kb, FALSE)
    \/ flashmd_write_rom_open
    \/ flashmd_write_rom_pages

SpecWidth == InitWidth /\ [][NextWidth]_vars

(***************************************************************************)
(* trim_rom_file alone, on files of every content up to more than two scan *)
(* blocks, applied a second time to the file it left                       *)
(***************************************************************************)
MaxFileLen == 2 * TRIM_BUFFER_SIZE + 1
TrimFiles == UNION {[1..n -> {0, 255}] : n \in 0..MaxFileLen}

\* trim_rom_file is called on the file it has processed
trim_again ==
    /\ hpc = "idle" /\ nops < 2
    /\ ret >= 0 /\ h.said # "error"
    /\ nops' = nops + 1
    /\ Ctl("read_rom.trim", h)
    /\ UNCHANGED <<devVars, helper, ret, file, fp, result, sent, wfile, interrupted, faulty,
                   gui>>

InitTrim ==
    /\ DevInit
    /\ chip = Chip0
    /\ flash = FlashImage(0)
    /\ sram = SramImage
    /\ chipKnown = TRUE
    /\ jitter = FALSE
    /\ faulty = FALSE
    /\ gui = Gui0
    /\ file \in TrimFiles
    /\ hpc = "read_rom.trim"
    /\ h = [H0 EXCEPT !.op = "read_rom", !.said = "note", !.saved = Len(file)]
    /\ helper = "none"
    /\ ret = 0
    /\ fp = "closed"
    /\ wfile = WriteImage
    /\ interrupted = FALSE
    /\ result = "running"
    /\ sent = <<>>
    /\ nops = 1

NextTrim ==
    \/ flashmd_read_rom_trim
    \/ trim_rom_file_scan
    \/ trim_again

SpecTrim == InitTrim /\ [][NextTrim]_vars

(***************************************************************************)
(* The size resolver alone: flashmd_kb_to_size and flashmd_size_to_bytes   *)
(* for every request from 0 to beyond the largest size                     *)
(***************************************************************************)
\* 8192 KB, the largest enumerated size, in the units of the model
Kb8M == 16 * Kb512
MaxKb == Kb8M + 8

\* size_code = flashmd_kb_to_size(size_kb);
\* bytes = flashmd_size_to_bytes(size_code);
size_lookup ==
    /\ hpc = "size"
    /\ Ctl("idle", [h EXCEPT !.size_code = flashmd_kb_to_size(h.size_kb),
                             !.device_bytes =
                                 flashmd_size_to_bytes(flashmd_kb_to_size(h.size_kb))])
    /\ SameOut /\ SameHlp /\ SameWire /\ SameFs /\ Quiet

InitSize ==
    /\ DevInit
    /\ chip = Chip0
    /\ flash = FlashImage(0)
    /\ sram = SramImage
    /\ chipKnown = TRUE
    /\ jitter = FALSE
    /\ faulty = FALSE
    /\ gui = Gui0
    /\ hpc = "size"
    /\ \E kb \in 0..MaxKb : h = [H0 EXCEPT !.op = "size", !.size_kb = kb]
    /\ helper = "none"
    /\ ret = 0
    /\ file = <<>>
    /\ fp = "closed"
    /\ wfile = WriteImage
    /\ interrupted = FALSE
    /\ result = "none"
    /\ sent = <<>>
    /\ nops = 0

NextSize == size_lookup

SpecSize == InitSize /\ [][NextSize]_vars

(***************************************************************************)
(* send_command alone, with the packet at its full length, for every       *)
(* opcode and every number of parameters up to the length of the packet    *)
(***************************************************************************)
CMD_PACKET_SIZE == 64

\* a packet that grows with its parameters
send_command_uncapped(cmd, params, param_len) ==
    [i \in 1..(IF 5 + param_len > CMD_PACKET_SIZE THEN 5 + param_len ELSE CMD_PACKET_SIZE) |->
        IF i = 1 THEN cmd
        ELSE IF i <= 5 THEN GoodMagic[i - 1]
        ELSE IF i - 5 <= param_len THEN params[i - 5]
        ELSE 0]

\* the packet send_command hands to usb_write(packet, CMD_PACKET_SIZE)
send_command(cmd, params, param_len) ==
    LET n == IF param_len > CMD_PACKET_SIZE - 5 THEN CMD_PACKET_SIZE - 5 ELSE param_len
    IN [i \in 1..CMD_PACKET_SIZE |->
           IF i = 1 THEN cmd
           ELSE IF i <= 5 THEN GoodMagic[i - 1]
           ELSE IF i - 5 <= n THEN params[i - 5]
           ELSE 0]

\* the parameter bytes of a caller, none of them zero
ParamBytes(n) == [k \in 1..n |-> 1 + ((7 * k) % 255)]

\* a caller sends a command with param_len parameters
send_command_call ==
    /\ hpc = "send"
    /\ \E cmd \in Opcodes, param_len \in 0..CMD_PACKET_SIZE :
          /\ Ctl("idle", [h EXCEPT !.buffer = ParamBytes(param_len)])
          /\ Out(result, Append(sent, cmd))
          /\ Wire(send_command(cmd, ParamBytes(param_len), param_len), rx, receiveBuffer)
    /\ SameHlp /\ SameFs /\ Quiet

InitPacket ==
    /\ DevInit
    /\ chip = Chip0
    /\ flash = FlashImage(0)
    /\ sram = SramImage
    /\ chipKnown = TRUE
    /\ jitter = FALSE
    /\ faulty = FALSE
    /\ gui = Gui0
    /\ hpc = "send"
    /\ h = [H0 EXCEPT !.op = "send"]
    /\ helper = "none"
    /\ ret = 0
    /\ file = <<>>
    /\ fp = "closed"
    /\ wfile = WriteImage
    /\ interrupted = FALSE
    /\ result = "none"
    /\ sent = <<>>
    /\ nops = 0

NextPacket == send_command_call

SpecPacket == InitPacket /\ [][NextPacket]_vars

(***************************************************************************)
(* read_until_complete alone, byte by byte: the device text arrives in      *)
(* reads of every length, and the accumulated text is a C string in buf     *)
(***************************************************************************)
\* sizeof(buf) and sizeof(temp) of read_until_complete (4096 and 512 in the
\* source), and the longest text the device sends
AccSize == 6
TempSize == 2
MaxText == 6
\* the end pattern, and the bytes of a text: the two of the pattern and NUL
EndPattern == <<79, 75>>
TextBytes == {0, 75, 79}
Texts == UNION {[1..n -> TextBytes] : n \in 0..MaxText}

\* the C string a buffer holds: its bytes before the first NUL
RECURSIVE CString(_)
CString(buf) ==
    IF buf = <<>> \/ Head(buf) = 0 THEN <<>>
    ELSE <<Head(buf)>> \o CString(Tail(buf))
\* pattern is a run of consecutive bytes of text
Occurs(pattern, text) ==
    \E k \in 1..(Len(text) - Len(pattern) + 1) :
        SubSeq(text, k, k + Len(pattern) - 1) = pattern
\* strstr(buf, end_pattern) != NULL
strstr(buf, pattern) == Occurs(pattern, CString(buf))

\* one cycle of while (elapsed < timeout_ms): usb_read into temp, the append
\* to buf when it fits, strstr; with the pattern found the drain loop reads
\* what is left and the function returns 0
read_until_complete_buf ==
    /\ hpc = "until"
    /\ \E u \in usb_read(TempSize, rx = <<>>) :
        LET fits == Len(h.resp) + u.n < AccSize - 1
            buf2 == IF fits THEN h.resp \o u.bin ELSE h.resp
            el2 == h.elapsed + PollMs
        IN IF u.n < 0
           THEN Ctl("idle", h) /\ Hlp("none", -1) /\ rx' = u.rest
           ELSE IF u.n > 0
           THEN IF strstr(buf2, EndPattern)
                THEN /\ Ctl("idle", [h EXCEPT !.resp = buf2, !.elapsed = 0])
                     /\ Hlp("none", 0) /\ rx' = <<>>
                ELSE /\ Ctl("until", [h EXCEPT !.resp = buf2, !.elapsed = 0])
                     /\ SameHlp /\ rx' = u.rest
           ELSE /\ rx' = u.rest
                /\ IF el2 < h.timeout
                   THEN Ctl("until", Waited(el2)) /\ SameHlp
                   ELSE Ctl("idle", Said(Waited(el2), "error")) /\ Hlp("none", -1)
    /\ UNCHANGED <<cmdbuff, receiveBuffer>>
    /\ SameOut /\ SameFs /\ Quiet

InitUntil ==
    /\ cmdbuff = ZeroPacket
    /\ receiveBuffer = [k \in 1..DATA_CHUNK_SIZE |-> 0]
    /\ busMode = "write"
    /\ sramEn = FALSE
    /\ dscript = <<>>
    /\ dj = 0
    /\ dropped = 0
    /\ npackets = 0
    /\ chip = Chip0
    /\ flash = FlashImage(0)
    /\ sram = SramImage
    /\ chipKnown = TRUE
    /\ jitter = TRUE
    /\ faulty = FALSE
    /\ gui = Gui0
    /\ hpc = "until"
    /\ \E text \in Texts :
          /\ rx = IF text = <<>> THEN <<>> ELSE <<Bin(text)>>
          /\ h = [H0 EXCEPT !.op = "until", !.timeout = 2 * PollMs, !.buffer = text]
    /\ helper = "read_until_complete"
    /\ ret = 0
    /\ file = <<>>
    /\ fp = "closed"
    /\ wfile = WriteImage
    /\ interrupted = FALSE
    /\ result = "none"
    /\ sent = <<>>
    /\ nops = 0

NextUntil == read_until_complete_buf

SpecUntil == InitUntil /\ [][NextUntil]_vars

(***************************************************************************)
(* The front end alone, in worker-thread mode and in IPC mode              *)
(***************************************************************************)
InitGui ==
    /\ DevInit
    /\ chip = Chip0
    /\ HostInit
    /\ flash = FlashImage(0)
    /\ sram = SramImage
    /\ chipKnown = TRUE
    /\ jitter = FALSE
    /\ faulty = FALSE
    /\ \E ipc \in BOOLEAN : gui = [Gui0 EXCEPT !.using_ipc = ipc]

NextGui ==
    \/ \E op \in GuiOps : start_operation(op)
    \/ worker_thread_func
    \/ usb_handler_read
    \/ usb_handler_open
    \/ usb_handler_run
    \/ usb_handler_close
    \/ usb_handler_send
    \/ process_ipc_messages

SpecGui == InitGui /\ [][NextGui]_vars

(***************************************************************************)
(* Claims about the dispatcher                                             *)
(***************************************************************************)
\* a packet with a known opcode and a wrong magic lies in the command slot
BadMagicPending == CB(0) \in Opcodes /\ ~MagicOK

\* the device hands a binary chunk to the transport in this step
DumpsPayload == Len(rx') > Len(rx) /\ rx'[Len(rx')].bin # <<>>

\* C1: while a packet whose bytes 1..4 are not AA 55 AA BB lies in the command
\* slot, the device does nothing on its account: the bus direction, the SRAM
\* overlay latch, the flash and the SRAM stay as they are and no payload is
\* dumped.
C1_BadMagicNoAction ==
    [][BadMagicPending =>
          /\ busMode' = busMode
          /\ sramEn' = sramEn
          /\ flash' = flash
          /\ sram' = sram
          /\ ~DumpsPayload]_vars

\* C2: a packet with a wrong magic is dropped silently: the device transmits
\* nothing, neither text nor chunk, while it lies in the command slot.
C2_BadMagicSilent == [][BadMagicPending => Len(rx') <= Len(rx)]_vars

(***************************************************************************)
(* Claims about the flow of commands                                       *)
(***************************************************************************)
\* the host puts a command packet or a data chunk on the transport
HostWrites == Len(sent') > Len(sent)

\* C3: the host writes a command packet or a data chunk only while the
\* device's dispatcher is idle, with no handler running and no command
\* waiting in the command slot.
C3_WritesOnlyWhenIdle == [][HostWrites => DevIdle]_vars

InitSequence == <<CMD_CONNECT, CMD_CHECK_ID, CMD_CLEAR_BUFFER>>

OwnOpcode ==
    IF h.op = "read_rom" THEN CMD_READ_ROM
    ELSE IF h.op = "read_sram" THEN CMD_READ_SRAM
    ELSE IF h.op = "write_rom" THEN CMD_WRITE_ROM
    ELSE IF h.op = "write_sram" THEN CMD_WRITE_SRAM
    ELSE IF h.size_kb = 0 THEN CMD_FULL_ERASE
    ELSE CMD_SECTOR_ERASE

InitPcs == {"connect", "connect.ret", "check_id", "clear_buffer"}

\* what an operation has sent so far, and where it stands
C4_Order ==
    h.op # "none" =>
        /\ \A k \in 1..Len(sent) :
              IF k <= 3 THEN sent[k] = InitSequence[k]
              ELSE sent[k] \in {OwnOpcode, DATA, CMD_CLEAR_BUFFER}
        /\ Len(sent) >= 4 => sent[4] \in {OwnOpcode, DATA}
        /\ hpc \notin InitPcs \cup {"idle"} => Len(sent) >= 3
        /\ hpc = "check_id" =>
              ret > 0 /\ \E k \in 1..Len(h.resp) : Contains(h.resp[k], "connected")
        /\ hpc = "idle" /\ Len(sent) < 3 => result \in {"IO", "TIMEOUT"}

\* an init step that fails returns its error, and a returned operation sends
\* nothing
C4_Abort ==
    /\ hpc \in InitPcs /\ hpc' = "idle" =>
          /\ sent' = sent
          /\ result' = IF hpc = "connect.ret" THEN "TIMEOUT" ELSE "IO"
    /\ hpc = "idle" /\ hpc' = "idle" => sent' = sent

\* C4: every operation sends Connect, CheckId and ClearBuffer in this order
\* before its own opcode; an init step that fails makes the operation return
\* that step's error and send nothing more.
C4_InitFirst == []C4_Order /\ [][C4_Abort]_vars

\* writeSram returned after flashmd_connect got no answer: only Connect went out
C4_Witness ==
    hpc = "idle" /\ h.op = "write_sram" /\ result = "TIMEOUT" /\ sent = <<CMD_CONNECT>>

(***************************************************************************)
(* Claims about readRom                                                    *)
(***************************************************************************)
\* the first n chunks of the cartridge, as the device streams them
RECURSIVE Payload(_)
Payload(n) == IF n = 0 THEN <<>> ELSE Payload(n - 1) \o RomChunk(n - 1)

\* the total a user asked for: the size in KB, at most what the size code
\* makes the device stream; all of the 4 MB stream for auto
Requested ==
    IF h.size_kb = 0 THEN 8 * Kb512 * DATA_CHUNK_SIZE
    ELSE Min(h.size_kb * DATA_CHUNK_SIZE, flashmd_size_to_bytes(flashmd_kb_to_size(h.size_kb)))

ReadRomReturned(r) == hpc = "idle" /\ h.op = "read_rom" /\ result = r

\* where each kind of chunk read stands
C5_Indices ==
    /\ hpc \in {"read_rom.tolerant", "read_rom.after"} =>
          h.i \in (device_chunks - 3)..(device_chunks - 1)
    /\ hpc = "read_rom.strict" => h.i < device_chunks - 3
    /\ ReadRomReturned("OK") => h.i >= device_chunks - 1 /\ sent[4] = CMD_READ_ROM

\* a strict read that did not fill its chunk ends the operation with an error
C5_StrictFails ==
    hpc = "read_rom.strict" /\ helper = "none" /\ ret < 0 /\ hpc' # hpc
        => hpc' = "idle" /\ result' \notin {"OK", "running"} /\ file' = file

\* C5: readRom reads one chunk per index below deviceBytes/1024; the last three
\* indices are read by the tolerant loop and every earlier one by the strict
\* read, whose failure to fill the chunk fails the operation.
C5_ChunkReads == []C5_Indices /\ [][C5_StrictFails]_vars

\* readRom returned Ok after a strict chunk and a tolerant chunk were read
C5_Witness == ReadRomReturned("OK") /\ h.i = device_chunks /\ device_chunks > 3

\* C6: when the device streamed every chunk, the transport made no error and
\* no wait of the operation ran to its ceiling, the file before trimming
\* holds the first min(requested, deviceBytes) payload bytes and no text.
C6_NoByteLost ==
    hpc = "read_rom.trim" /\ ~h.expired /\ ~faulty
        => file = SubSeq(Payload(device_chunks), 1, Requested)

\* C7: a strict chunk read, of readRom or of readSram, that ran to its 5 s
\* ceiling without its chunk makes the operation return Timeout.
C7_StrictTimeout ==
    [][/\ hpc \in {"read_rom.strict", "read_sram.chunk"}
       /\ helper = "none" /\ ret < 0 /\ ~(h.elapsed < h.timeout)
       /\ hpc' # hpc
       => hpc' = "idle" /\ result' = "TIMEOUT"]_vars

\* C8: the bytes written to the output file never exceed the requested
\* total, and while the file is open they are the saved bytes.
C8_SavedCapped ==
    h.op = "read_rom" =>
        /\ h.saved <= Requested
        /\ Len(file) <= Requested \/ fp = "closed"
        /\ fp = "open" => Len(file) = h.saved

\* after a short chunk, a tolerant chunk is at hand whose bytes would carry
\* the file past the requested total
C8_Witness ==
    /\ hpc = "read_rom.after"
    /\ h.saved < Requested
    /\ h.saved + h.chunk_bytes_read > Requested

\* the file of a readRom that returned Ok with noTrim and a size
C9_Length == ReadRomReturned("OK") /\ h.no_trim /\ h.size_kb > 0 => Len(file) = Requested

\* what the steps after the chunk loop do to the file under noTrim and a size
C9_PadOnly ==
    h.op = "read_rom" /\ h.no_trim /\ h.size_kb > 0 =>
        /\ hpc = "read_rom.end" /\ hpc' = "read_rom.trim" =>
              /\ Len(file') = Requested
              /\ \A k \in 1..Requested : file'[k] = IF k <= Len(file) THEN file[k] ELSE 255
        /\ hpc = "read_rom.trim" => file' = file

C10_AutoTrims ==
    h.op = "read_rom" /\ h.size_kb = 0 =>
        /\ h.size_code = FLASHMD_SIZE_4M
        /\ device_chunks = 8 * Kb512
        /\ ReadRomReturned("OK") => (file = <<>> \/ file[Len(file)] # 255)

(***************************************************************************)
(* Claims about writeRom                                                   *)
(***************************************************************************)
\* what writeRom has written after the three commands of the init
WriteRomBody == SubSeq(sent, 4, Len(sent))

\* the chunks writeRom has completed
ChunksDone == h.written \div DATA_CHUNK_SIZE

\* the writes of writeRom alternate: a data chunk, then its WriteRom command;
\* the wait for the acknowledgement has the 5 s ceiling
C11_Order ==
    h.op = "write_rom" /\ Len(sent) >= 3 =>
        /\ \A j \in 1..Len(WriteRomBody) :
              IF j % 2 = 0 THEN WriteRomBody[j] = CMD_WRITE_ROM
              ELSE \/ WriteRomBody[j] = DATA
                   \/ /\ WriteRomBody[j] = CMD_CLEAR_BUFFER
                      /\ j = Len(WriteRomBody)
                      /\ hpc \in {"write_rom.ret", "idle"}
        /\ hpc = "write_rom.loop" => Len(WriteRomBody) = 2 * ChunksDone
        /\ hpc = "write_rom.cmd" => Len(WriteRomBody) = 2 * ChunksDone + 1
        /\ hpc = "write_rom.ack" =>
              /\ Len(WriteRomBody) = 2 * ChunksDone + 2
              /\ h.timeout = 5000
              /\ helper \in {"read_response", "none"}

\* the steps of a chunk: the data are exactly one chunk, the command carries
\* the current page and bank, and the loop goes on only with a response
C11_Steps ==
    h.op = "write_rom" =>
        /\ hpc = "write_rom.loop" /\ hpc' = "write_rom.cmd" =>
              /\ Len(receiveBuffer') = DATA_CHUNK_SIZE
              /\ sent' = Append(sent, DATA)
        /\ hpc = "write_rom.cmd" /\ hpc' = "write_rom.ack" =>
              /\ sent' = Append(sent, CMD_WRITE_ROM)
              /\ cmdbuff' = Packet(CMD_WRITE_ROM, GoodMagic, <<h.addj, h.bank>>)
        /\ hpc = "write_rom.ack" /\ hpc' = "write_rom.loop" =>
              /\ ret > 0 /\ h.resp # <<>>
              /\ h'.written = h.written + DATA_CHUNK_SIZE
        /\ hpc = "write_rom.ack" /\ helper = "none" /\ ret <= 0 /\ hpc' # hpc =>
              hpc' = "idle" /\ result' = "TIMEOUT" /\ sent' = sent
        /\ hpc = "idle" => sent' = sent
        /\ HostWrites /\ ChunksDone > 0 /\ hpc = "write_rom.loop" /\ ~jitter /\ ~faulty =>
              DevIdle

C12_PageBank ==
    hpc = "write_rom.pages" /\ CB(0) = CMD_WRITE_ROM =>
        LET k == ChunksDone - 1
        IN /\ MagicOK
           /\ CB(5) = k % PagesPerBank
           /\ CB(6) = k \div PagesPerBank
           /\ Head(Script0B).a = k * ChunkWords

(***************************************************************************)
(* Claims about erase                                                      *)
(***************************************************************************)
\* erase with size 0 waits for the end marker of the full erase, with the
\* 3000 ms ceiling, after it sent EraseFull
C13_Sends ==
    h.op = "erase" /\ h.size_kb = 0 /\ hpc = "erase.ret" =>
        /\ sent = Append(InitSequence, CMD_FULL_ERASE)
        /\ h.timeout = 3000 /\ h.pattern = "SRAM ERASE FINISH"
        /\ helper \in {"read_until_complete", "read_until_complete.drain", "none"}

\* the wait ended on 3000 ms of silence without the marker
C13_Expired ==
    /\ h.op = "erase" /\ h.size_kb = 0 /\ hpc = "erase.ret"
    /\ helper = "none" /\ ret < 0 /\ ~(h.elapsed < h.timeout)

\* C13: erase with size 0 sends EraseFull and waits until the completion
\* marker is seen or 3000 ms of silence have passed; in the latter case it
\* returns Timeout.
C13_EraseTimeout ==
    []C13_Sends /\ [][C13_Expired /\ hpc' # hpc => hpc' = "idle" /\ result' = "TIMEOUT"]_vars

(***************************************************************************)
(* Claims about cancellation                                               *)
(***************************************************************************)
\* the loop tests of the four chunk loops
LoopPcs == {"read_rom.loop", "read_sram.loop", "write_rom.loop", "write_sram.loop"}

\* what an operation does when it stands at a chunk boundary with the flag set
C14_Boundary ==
    interrupted /\ hpc' # hpc =>
        /\ hpc = "read_rom.loop" =>
              hpc' = "read_rom.end" /\ sent' = sent /\ file' = file /\ rx' = rx
        /\ hpc = "read_rom.end" =>
              hpc' = "idle" /\ result' = "INTERRUPTED" /\ sent' = sent /\ file' = file
        /\ hpc \in LoopPcs \ {"read_rom.loop"} =>
              /\ hpc' = "idle" /\ result' = "INTERRUPTED"
              /\ sent' = sent /\ file' = file /\ rx' = rx

Interrupted(op) == hpc = "idle" /\ h.op = op /\ result = "INTERRUPTED"

\* C15: writeRom that returns Interrupted has transferred one whole chunk for
\* every chunk it completed and nothing else; readRom and readSram that
\* return Interrupted leave a closed file that holds the whole chunks they
\* completed and no partial chunk.
C15_WholeChunks ==
    /\ Interrupted("write_rom") =>
          /\ Len(WriteRomBody) = 2 * ChunksDone
          /\ h.written = ChunksDone * DATA_CHUNK_SIZE
    /\ Interrupted("read_sram") =>
          /\ fp = "closed"
          /\ Len(file) = h.received /\ Len(file) % DATA_CHUNK_SIZE = 0
    /\ Interrupted("read_rom") =>
          /\ fp = "closed"
          /\ Len(file) = Min(h.i * DATA_CHUNK_SIZE, h.total_bytes)

\* C16: when an operation has returned, with any result, the file it opened
\* is closed: the output file of readRom and readSram, the input file of
\* writeRom and writeSram, and the file trim_rom_file opened again.
C16_Closed == hpc = "idle" => fp = "closed"

\* an operation returned an error, or Interrupted, after it had opened its
\* file and moved a chunk
C16_Witness ==
    /\ hpc = "idle" /\ fp = "closed"
    /\ result \in {"IO", "TIMEOUT", "INTERRUPTED"}
    /\ \/ h.op = "read_sram" /\ h.received > 0
       \/ h.op = "write_rom" /\ ChunksDone > 0

\* the offset of the last byte of f that is not 0xFF, plus 1; 0 without one
DataEnd(f) ==
    IF \E k \in 1..Len(f) : f[k] # 255
    THEN CHOOSE k \in 1..Len(f) : f[k] # 255 /\ \A j \in (k + 1)..Len(f) : f[j] = 255
    ELSE 0

\* trim_rom_file ends without a failure of the file system
Trimmed == hpc = "read_rom.scan" /\ hpc' = "idle" /\ ret' >= 0 /\ h'.said # "error"

\* C17: for every file content and length, below, at and beyond the scan
\* block, trim cuts the file to the offset of its last non-0xFF byte plus 1
\* and returns that offset: a file of 0xFF alone becomes empty, a file that
\* ends in another byte is left as it is.
C17_TrimsToDataEnd ==
    [][Trimmed => /\ file' = SubSeq(file, 1, DataEnd(file))
                  /\ ret' = DataEnd(file)
                  /\ DataEnd(file) = Len(file) => file' = file]_vars

\* a file of more than two scan blocks whose data ends in its first block
\* was cut
C17_Witness ==
    /\ hpc = "idle" /\ nops = 1 /\ h.said = "summary"
    /\ h.saved = MaxFileLen
    /\ Len(file) = 1 /\ ret = 1 /\ file[1] = 0

\* C18: trim applied to a file that trim has processed leaves the file as it
\* is and returns the length the first application returned.
C18_Idempotent == [][Trimmed /\ nops = 2 => file' = file /\ ret' = ret]_vars

\* the second application ended on a file the first one had cut to its data
C18_Witness ==
    /\ hpc = "idle" /\ nops = 2 /\ h.said = "summary"
    /\ h.saved = MaxFileLen
    /\ Len(file) = TRIM_BUFFER_SIZE + 1 /\ ret = Len(file)

\* C19: every return of an operation is preceded by a line of its own for
\* the message callback that tells the outcome: the closing summary before
\* Ok, an error line before every other result.
C19_FinalLine ==
    hpc = "idle" /\ h.op # "none" =>
        /\ result = "OK" => h.said = "summary"
        /\ result # "OK" => h.said = "error"

\* the statement the running handler executes in this step
Executes(op) == dscript # <<>> /\ Head(dscript).op = op /\ dscript' = Tail(dscript)

\* word k of the chunk in receiveBuffer, high byte first
ChunkWord(k) == receiveBuffer[2 * k + 1] * 256 + receiveBuffer[2 * k + 2]

\* the WriteRom handler leaves, in the words of chunk number bank*64 + page,
\* the bitwise AND of what they held and the words of the chunk
C20_Stored ==
    Executes("pgm") =>
        LET n == CB(6) * PagesPerBank + CB(5)
        IN \A k \in 0..(ChunkWords - 1) :
              flash'[n * ChunkWords + k] = BitAnd(flash[n * ChunkWords + k], ChunkWord(k), 16)

\* the ReadRom handler transmits, as chunk number j, the words of chunk j of
\* the flash, each high byte first
C20_Dumped ==
    Executes("romchunk") /\ ~UsbBusy(rx) =>
        LET j == Head(dscript).a
            b == rx'[Len(rx')].bin
        IN \A k \in 0..(ChunkWords - 1) :
              b[2 * k + 1] * 256 + b[2 * k + 2] = flash[j * ChunkWords + k]

\* C20: a chunk written with WriteRom(page, bank) is read back by a dump as
\* chunk number bank*64 + page, in the same byte order: the written bytes on
\* an erased range, the bitwise AND of the old and the written value else.
C20_RoundTrip == [][C20_Stored /\ C20_Dumped]_vars

\* the size resolver has answered the request h.size_kb
Resolved == hpc = "idle" /\ h.op = "size"

\* the size codes, and the KB an enumerated size holds
SizeCodes == {FLASHMD_SIZE_512K, FLASHMD_SIZE_1M, FLASHMD_SIZE_2M, FLASHMD_SIZE_4M,
              FLASHMD_SIZE_8M}
SizeKb(code) ==
    IF code = FLASHMD_SIZE_512K THEN Kb512
    ELSE IF code = FLASHMD_SIZE_1M THEN 2 * Kb512
    ELSE IF code = FLASHMD_SIZE_2M THEN 4 * Kb512
    ELSE IF code = FLASHMD_SIZE_4M THEN 8 * Kb512
    ELSE Kb8M

\* the ranges of the claim: 1..512, 513..1024, 1025..2048, 2049..4096, above
C21_Table ==
    Resolved /\ h.size_kb >= 1 =>
        h.size_code = IF h.size_kb <= Kb512 THEN FLASHMD_SIZE_512K
                      ELSE IF h.size_kb <= 2 * Kb512 THEN FLASHMD_SIZE_1M
                      ELSE IF h.size_kb <= 4 * Kb512 THEN FLASHMD_SIZE_2M
                      ELSE IF h.size_kb <= 8 * Kb512 THEN FLASHMD_SIZE_4M
                      ELSE FLASHMD_SIZE_8M

\* the answer is the smallest enumerated size that holds the request
Nearest ==
    /\ SizeKb(h.size_code) >= h.size_kb
    /\ \A c \in SizeCodes : SizeKb(c) >= h.size_kb => SizeKb(h.size_code) <= SizeKb(c)

\* C21 as stated: the table, and every request of 1 KB or more is rounded up
\* to the nearest enumerated size, never down.
C21_AlwaysUp == C21_Table /\ (Resolved /\ h.size_kb >= 1 => Nearest)

\* C21: the table, and every request from 1 KB to the largest size, 8192 KB,
\* is rounded up to the nearest enumerated size; a larger request gets 8M.
C21_RoundsUp ==
    /\ C21_Table
    /\ Resolved /\ h.size_kb >= 1 /\ h.size_kb <= Kb8M => Nearest
    /\ Resolved /\ h.size_kb > Kb8M => h.size_code = FLASHMD_SIZE_8M

\* a request one above an enumerated size got the next size
C21_Witness == Resolved /\ h.size_kb = 2 * Kb512 + 1 /\ h.size_code = FLASHMD_SIZE_2M

\* C22: for every request of at most 8192 KB the bytes of the resolved size
\* code are at least the bytes requested.
C22_NoUnderAllocation ==
    Resolved /\ h.size_kb <= Kb8M => h.device_bytes >= h.size_kb * DATA_CHUNK_SIZE

\* the largest request that is still held
C22_Witness ==
    Resolved /\ h.size_kb = Kb8M /\ h.device_bytes = Kb8M * DATA_CHUNK_SIZE

\* C23: the size resolver does not answer the request 0 with the 512K code.
C23_ZeroIsAuto == Resolved /\ h.size_kb = 0 => h.size_code # FLASHMD_SIZE_512K

\* send_command was called with the parameters in h.buffer
Sent == hpc = "idle" /\ h.op = "send"

\* C24: the packet send_command sends has exactly 64 bytes: the opcode in
\* byte 0, AA 55 AA BB in bytes 1..4, the parameters from byte 5 on, at most
\* 59 of them, and zero in every other byte.
C24_PacketLayout ==
    Sent =>
        LET n == IF Len(h.buffer) > 59 THEN 59 ELSE Len(h.buffer)
        IN /\ Len(cmdbuff) = 64
           /\ CB(0) = sent[1]
           /\ <<CB(1), CB(2), CB(3), CB(4)>> = <<170, 85, 170, 187>>
           /\ \A k \in 0..(n - 1) : CB(5 + k) = h.buffer[k + 1]
           /\ \A i \in (5 + n)..63 : CB(i) = 0
           /\ Len(h.buffer) <= 4 =>
                 Packet(sent[1], GoodMagic, h.buffer) = SubSeq(cmdbuff, 1, 9)

\* a call with more parameters than the packet holds was sent
C24_Witness == Sent /\ Len(h.buffer) = 61 /\ Len(cmdbuff) = 64 /\ CB(63) = h.buffer[59]

\* the dispatcher enters a handler in this step
DevDispatchStep == dscript = <<>> /\ dscript' # <<>>

\* erase_sector makes one more cycle of its status loop, or leaves it
Polls == dscript # <<>> /\ Head(dscript).op = "sector"
\* the last n write cycles the chip saw
LastCycles(log, n) == IF Len(log) < n THEN <<>> ELSE SubSeq(log, Len(log) - n + 1, Len(log))
\* the bus carried dat at address: a write cycle whose data the port drove
Wrote(c, address, dat) == c.a = address /\ c.d = dat /\ c.driven

\* erase_sector returns only on two reads that agree on bit 6, the second
\* with bit 7
C25_ReturnsWhenDone ==
    Polls /\ dscript' = Tail(dscript) =>
        /\ (chip'.status1 \div 64) % 2 = (chip'.status2 \div 64) % 2
        /\ chip'.status2 >= 128
\* a cycle that does not return and reads bit 5 puts the six writes on the
\* bus again before the next status read
C25_Reissues ==
    Polls /\ dscript' = dscript /\ (chip'.status2 \div 32) % 2 = 1 =>
        LET c == LastCycles(chip'.log, 6)
            sector_addr == Head(dscript).a
        IN /\ c # <<>>
           /\ Wrote(c[1], 1365, 170) /\ Wrote(c[2], 682, 85) /\ Wrote(c[3], 1365, 128)
           /\ Wrote(c[4], 1365, 170) /\ Wrote(c[5], 682, 85) /\ Wrote(c[6], sector_addr, 48)

\* C25: erase_sector returns only after two successive status reads at the
\* sector address agree on bit 6 and the second has bit 7 set; whenever bit 5
\* is set instead, the unlock+erase sequence (AA to 555, 55 to 2AA, 80 to 555,
\* AA to 555, 55 to 2AA, 30 to the sector address) is written again before
\* polling resumes; the loop counts nothing and so has no bound.
C25_EraseSector == [][C25_ReturnsWhenDone /\ C25_Reissues]_vars

\* eraseFLASH leaves its loop in this step
LeavesPoll == dscript # <<>> /\ Head(dscript).op = "poll" /\ dscript' = Tail(dscript)

\* C26: eraseFLASH leaves its polling loop, and reports the erase as
\* finished, only in a poll cycle in which all 8 probe addresses 0x0..0x7
\* read 0xFF; with any other value in any of the 8 probes, the last included,
\* polling continues.
C26_AllProbesErased ==
    [][LeavesPoll => \A k \in 1..8 : chip'.data[k] = 255]_vars

\* the command bytes of the chip: program, erase, sector erase, chip erase,
\* ID entry, ID exit
CommandBytes == {160, 128, 48, 16, 144, 240}
IsCommand(c) == c.call = "setByte" /\ c.d \in CommandBytes

\* C27: every flash command byte the device writes (A0, 80, 30, 10, 90, F0)
\* comes right after the unlock writes AA to 555 and then 55 to 2AA, in every
\* handler and in every reissue of erase_sector.
C27_Unlocked ==
    \A i \in 1..Len(chip.log) :
        IsCommand(chip.log[i]) =>
            IF i >= 3
            THEN LET u1 == chip.log[i - 2]
                     u2 == chip.log[i - 1]
                 IN /\ u1.call = "setByte" /\ u1.a = 1365 /\ u1.d = 170
                    /\ u2.call = "setByte" /\ u2.a = 682 /\ u2.d = 85
                    /\ u1.driven = chip.log[i].driven /\ u2.driven = chip.log[i].driven
            ELSE Len(chip.log) = LogLen

\* erase_sector has written its sequence a second time, in its loop
C27_Witness ==
    /\ Polls /\ chip.status2 = 32
    /\ Len(chip.log) = LogLen
    /\ chip.log[LogLen].d = 48 /\ chip.log[LogLen - 6].d = 48

\* the words of the chunk in receiveBuffer with a byte other than 0xFF
ToProgram == {k \in 0..(ChunkWords - 1) : ChunkWord(k) # 65535}

\* the places in a log where the word w is written to address after AA to 555,
\* 55 to 2AA, A0 to 555
ProgramsAt(log, address, w) ==
    {i \in 4..Len(log) :
        /\ log[i].call = "word" /\ Wrote(log[i], address, w)
        /\ Wrote(log[i - 3], 1365, 170) /\ Wrote(log[i - 2], 682, 85)
        /\ Wrote(log[i - 1], 1365, 160)}

C28_Step ==
    Executes("pgm") =>
        LET addw == (CB(6) * PagesPerBank + CB(5)) * ChunkWords
        IN /\ \A k \in ToProgram :
                /\ Cardinality(ProgramsAt(chip'.log, addw + k, ChunkWord(k))) = 1
                /\ flash'[addw + k] = BitAnd(flash[addw + k], ChunkWord(k), 16)
           /\ \A a \in DOMAIN flash : a \notin {addw + k : k \in ToProgram} => flash'[a] = flash[a]
           /\ Len(chip'.log) = Len(chip.log) + 4 * Cardinality(ToProgram)

\* C28: the WriteRom handler programs exactly the 16-bit words of the chunk
\* that have a byte other than 0xFF, each once, at word address
\* bank*64*512 + page*512 + index/2, each after unlock + A0; a word of FF FF
\* is skipped without a bus write.
C28_ProgramsWords == [][C28_Step]_vars

\* no handler runs: the chip is out of ID mode
C29_IdModeLeft == dscript = <<>> => ~chip.id
\* an ID pair other than C2 CB makes the device send a text, and no more
C29_TextOnly ==
    Executes("idname") /\ ~chipKnown =>
        /\ rx' = Append(rx, Txt("NO FIND NGP CARD\r\n"))
        /\ cmdbuff' = cmdbuff /\ flash' = flash /\ sram' = sram
\* flashmd_check_id returns FLASHMD_OK: the operation goes on to
\* flashmd_clear_buffer, and from there to its body
C29_HostGoesOn ==
    /\ hpc = "check_id" /\ hpc' # hpc => hpc' = "clear_buffer" /\ result' = result
    /\ hpc = "clear_buffer" /\ hpc' # hpc => hpc' = h.op /\ result' = result

\* C29: checkid leaves the chip out of ID mode: every ID entry (90) it writes
\* is followed, before it returns, by unlock + F0; an ID pair other than
\* C2 CB is only reported as a text, and CheckId of the host still returns Ok.
C29_CheckId == [](C29_IdModeLeft) /\ [][C29_TextOnly /\ C29_HostGoesOn]_vars

\* with an unknown cartridge the operation has passed CheckId and sent the
\* next command, and the handler has left the chip in read mode
C29_Witness ==
    /\ ~chipKnown /\ ~chip.id /\ dscript = <<>>
    /\ Len(sent) >= 3 /\ sent[2] = CMD_CHECK_ID /\ sent[3] = CMD_CLEAR_BUFFER
    /\ hpc # "idle"

\* the handler of EraseBySize runs for one of the size codes 1..4
ErasesBySize ==
    /\ dscript # <<>> /\ CB(0) = CMD_SECTOR_ERASE /\ MagicOK /\ CB(5) \in 1..4

\* the sector addresses below the limit of a size code, 512K doubling: eight
\* steps of 0x1000, then steps of 0x8000
SectorAddresses(code) ==
    LET limit == 262144 * (IF code = 1 THEN 1 ELSE IF code = 2 THEN 2
                           ELSE IF code = 3 THEN 4 ELSE 8)
    IN [k \in 1..(7 + limit \div 32768) |->
           IF k <= 8 THEN (k - 1) * 4096 ELSE (k - 8) * 32768]

\* the addresses of the erase_sector calls a run of statements holds
IsCall(it) == it.op = "sectorcmd"
Calls(script) ==
    LET c == SelectSeq(script, IsCall) IN [k \in 1..Len(c) |-> c[k].a]
\* the statements of a run that belong to an erase_sector call
InErase(it) == it.op \in {"sectorcmd", "sector"}

IsSuffix(t, q) == Len(t) <= Len(q) /\ t = SubSeq(q, Len(q) - Len(t) + 1, Len(q))

\* the handler starts with one call for every address, in ascending order,
\* and goes through them
C30_Calls ==
    /\ DevDispatchStep => (ErasesBySize' => Calls(dscript') = SectorAddresses(CB(5)))
    /\ ErasesBySize /\ dscript' # <<>> => IsSuffix(Calls(dscript'), Calls(dscript))
\* every address is below the limit of the size code
C30_Below ==
    ErasesBySize =>
        \A k \in 1..Len(Calls(dscript)) :
            Calls(dscript)[k] < 262144 * (IF CB(5) = 1 THEN 1 ELSE IF CB(5) = 2 THEN 2
                                          ELSE IF CB(5) = 3 THEN 4 ELSE 8)
\* the marker is sent when no call is left to make or to return
C30_Marker ==
    ErasesBySize /\ rx' # rx /\ Len(rx') > Len(rx) /\ Contains(rx'[Len(rx')].txt, "ERASE OK") =>
        SelectSeq(dscript, InErase) = <<>>

\* C30: EraseBySize with a size code 1..4 erases the sectors from address 0
\* on, stepping by 0x1000 below 0x8000 and by 0x8000 from there (0x7000,
\* 0x8000, 0x10000), calls erase_sector once for each of these addresses,
\* all below the limit of the size code, and sends the ERASE OK marker only
\* after the last call has returned.
C30_EraseBySize == [](C30_Below) /\ [][C30_Calls /\ C30_Marker]_vars

\* the 4M erase has gone through its sectors and sent its marker
C30_Witness ==
    /\ CB(0) = CMD_SECTOR_ERASE /\ CB(5) = 4
    /\ rx # <<>> /\ rx[Len(rx)].txt = "\r\n4M ERASE OK!\r\n"
    /\ chip.log # <<>> /\ chip.log[Len(chip.log)].a = 2064384

\* the running handler executes its last statement in this step
HandlerEnds == dscript # <<>> /\ dscript' = <<>>
\* a packet with the magic and an opcode of the dispatch loop is in the slot
ValidPending == MagicOK /\ CB(0) \in Opcodes

\* the dispatcher finds a handler for a valid packet and enters it whole: with
\* a response to send and with the cmdclear() of the slot; the handler that
\* runs while the packet is in the slot is the one of the packet
C31_Dispatched ==
    /\ dscript = <<>> /\ ValidPending => Handler # <<>>
    /\ dscript # <<>> /\ ValidPending =>
          \E k \in 1..Len(Handler) : dscript = SubSeq(Handler, k, Len(Handler))
    /\ dscript # <<>> /\ ValidPending /\ dscript = Handler =>
          /\ \E k \in 1..Len(dscript) : Transmits(dscript[k])
          /\ \E k \in 1..Len(dscript) : dscript[k].op = "clear"
\* a running handler is left only statement by statement, a valid packet
\* leaves the slot by a cmdclear() only, and at the end of the handler the
\* slot is clear: the dispatcher is idle until the next packet arrives
C31_ToCompletion ==
    /\ dscript # <<>> => dscript' \in {dscript, Tail(dscript)}
    /\ ValidPending /\ cmdbuff' # cmdbuff => dscript # <<>> /\ Head(dscript).op = "clear"
    /\ HandlerEnds => cmdbuff' = ZeroPacket /\ DevIdle'

Streams(kind) == Cardinality({k \in 1..Len(dscript) : dscript[k].op = kind})
\* the 0x0A handler has just been entered for a size code of the host
ReadRomEntered ==
    /\ dscript # <<>> /\ dscript = Handler
    /\ CB(0) = CMD_READ_ROM /\ MagicOK /\ CB(5) \in SizeCodes

\* C32: for every size code the host can send with ReadRom (512K, 1M, 2M, 4M,
\* 8M) the device streams sizeCodeToBytes(code)/1024 chunks, the number of
\* chunks the host expects for that code.
C32_ChunkCount ==
    ReadRomEntered =>
        Streams("romchunk") = flashmd_size_to_bytes(CB(5)) \div DATA_CHUNK_SIZE

\* the same for the codes the handler has a branch for
C32_ChunkCountBelow8M ==
    ReadRomEntered /\ CB(5) # FLASHMD_SIZE_8M =>
        Streams("romchunk") = flashmd_size_to_bytes(CB(5)) \div DATA_CHUNK_SIZE

\* the statement the running handler executes next
About(ops) == dscript # <<>> /\ Head(dscript).op \in ops
\* every write cycle made so far (setByte, GPIO_WriteHigh/Low with a strobe of
\* MD_WR) found GPIOE an output
AllDriven == \A k \in 1..Len(chip.log) : chip.log[k].driven
\* the SRAM write strobes of the 0x1B and 0x0E handlers come in write mode
SramWritesInWriteMode == About({"sramwr", "sramfill"}) => busMode = "write"
\* the reads of the dumps, of the chip id and of the erase probes come in read
\* mode
ReadsInReadMode ==
    About({"romchunk", "sramchunk", "readid", "poll"}) => busMode = "read"

\* C33: for every sequence of command packets every setByte call and every
\* flash or SRAM write strobe happens while the bus direction is write mode,
\* and every getByte or dump read while it is read mode.
C33_Direction == AllDriven /\ SramWritesInWriteMode /\ ReadsInReadMode

\* the same without the flash write cycles
C33_ReadsAndSram == SramWritesInWriteMode /\ ReadsInReadMode

\* the dump loop executes CDC_Transmit_FS(transmitBuffer, 1024) for chunk j
SubmitsChunk(j) ==
    /\ About({"romchunk", "sramchunk"}) /\ Head(dscript).a = j
    /\ dscript' = Tail(dscript)
\* the chunk the loop has filled into transmitBuffer
Filled == IF Head(dscript).op = "romchunk" THEN RomChunk(Head(dscript).a)
          ELSE SramChunk(Head(dscript).a)
\* chunk j goes to the transport behind everything submitted before it, and
\* the loop goes on with chunk j + 1 or with the end of the dump
Delivered(j) ==
    /\ rx' = Append(rx, Bin(Filled))
    /\ dscript' # <<>>
    /\ Head(dscript').op = Head(dscript).op => Head(dscript').a = j + 1

\* C34: during ReadRom and ReadSram every chunk is delivered exactly once and
\* in address order, also when the transport reports busy at the moment the
\* chunk is submitted: no chunk is dropped.
C34_EveryChunk ==
    [](dropped = 0) /\ [][\A j \in 0..(8 * Kb512) : SubmitsChunk(j) => Delivered(j)]_vars

\* the same for the chunks submitted while the transport is not busy
C34_WhenFree ==
    [][\A j \in 0..(8 * Kb512) : SubmitsChunk(j) /\ ~UsbBusy(rx) => Delivered(j)]_vars

\* the arguments of emit_progress(config, current, total) in the chunk loop of
\* the running operation
bytesDone(r) ==
    IF r.op = "read_rom" THEN r.saved
    ELSE IF r.op = "read_sram" THEN r.received
    ELSE r.written
bytesTotal(r) ==
    IF r.op = "write_rom" THEN r.write_size
    ELSE IF r.op = "write_sram" THEN r.file_size
    ELSE r.total_bytes
\* an iteration of a chunk loop ends in this step: emit_progress is called
EmitsProgress ==
    /\ hpc \in {"read_rom.strict", "read_rom.tolerant", "read_rom.after",
                "read_sram.chunk", "write_rom.ack", "write_sram.ack"}
    /\ hpc' \in {"read_rom.loop", "read_sram.loop", "write_rom.loop", "write_sram.loop"}

\* C35: every progress callback of readRom, readSram, writeRom and writeSram
\* has bytesDone <= bytesTotal, and bytesDone never decreases within one
\* operation, for every file size.
C35_Progress ==
    [][EmitsProgress =>
          /\ bytesDone(h') <= bytesTotal(h')
          /\ bytesDone(h') >= bytesDone(h)]_vars

\* the same for the two read operations, and the monotony for all four
C35_ReadProgress ==
    [][EmitsProgress =>
          /\ h.op \in {"read_rom", "read_sram"} => bytesDone(h') <= bytesTotal(h')
          /\ bytesDone(h') >= bytesDone(h)]_vars

\* the four operations with a chunk loop
ChunkOps == {"read_rom", "read_sram", "write_rom", "write_sram"}
\* the test of the chunk loop of the operation: a chunk is left to transfer
ChunksLeft ==
    IF h.op = "read_rom" THEN h.i < device_chunks
    ELSE IF h.op = "read_sram" THEN h.received < h.total_bytes
    ELSE IF h.op = "write_rom" THEN h.written < h.write_size
    ELSE h.written < h.file_size

\* C36: an operation returns Interrupted only if at least one chunk was left
\* untransferred; with the flag set after the final chunk it finishes
\* normally.
C36_OnlyWithChunksLeft ==
    hpc = "idle" /\ h.op \in ChunkOps /\ result = "INTERRUPTED" => ChunksLeft

\* Interrupted is returned with the flag set only, and no step of an operation
\* clears the flag
C36_FlagKept ==
    /\ [](hpc = "idle" /\ h.op \in ChunkOps /\ result = "INTERRUPTED" => interrupted)
    /\ [][hpc # "idle" /\ interrupted => interrupted']_vars

\* read_until_complete has returned
UntilReturned == hpc = "idle" /\ h.op = "until"
\* the text up to the end of the first end pattern
RECURSIVE UpToPattern(_, _)
UpToPattern(text, n) ==
    IF n >= Len(text) \/ Occurs(EndPattern, SubSeq(text, 1, n)) THEN SubSeq(text, 1, n)
    ELSE UpToPattern(text, n + 1)

\* C37: read_until_complete returns 0 whenever the text the device sent
\* contains the end marker, whatever bytes precede it and however it is split
\* across reads; it fails only after timeout_ms of silent polls without the
\* marker.
C37_FindsMarker ==
    UntilReturned =>
        /\ Occurs(EndPattern, h.buffer) => ret = 0
        /\ ret # 0 => ~(h.elapsed < h.timeout)

\* the same for a marker with no NUL before it, when every read up to the one
\* that brings its last byte fits into buf
C37_FindsNearMarker ==
    UntilReturned =>
        /\ LET head == UpToPattern(h.buffer, 0)
           IN /\ Occurs(EndPattern, head)
              /\ Min(Len(h.buffer), Len(head) + TempSize - 1) < AccSize - 1
              /\ \A k \in 1..Len(head) : head[k] # 0
              => ret = 0
        /\ ret # 0 => ~(h.elapsed < h.timeout)

\* size_kb * 1024 as a number, and whether a uint32_t holds it
InBytes(size_kb) == size_kb * DATA_CHUNK_SIZE
\* flashmd_read_rom has set total_bytes; flashmd_write_rom has set write_size
ReadRomSized == hpc = "connect" /\ h.op = "read_rom" /\ h.size_kb > 0
WriteRomSized == hpc = "write_rom.loop" /\ h.op = "write_rom" /\ h.size_kb > 0

\* C38: for every 32-bit sizeKb > 0 the requested total of readRom is
\* min(sizeKb*1024, deviceBytes) and the write size of writeRom is
\* min(sizeKb*1024, fileSize), sizeKb*1024 taken without a 32-bit wrap; the
\* 8-bit bank counter does not wrap within one operation.
C38_NoWrap ==
    /\ [](ReadRomSized => h.total_bytes = Min(InBytes(h.size_kb), h.device_bytes))
    /\ [](WriteRomSized => h.write_size = Min(InBytes(h.size_kb), Len(wfile)))
    /\ [][hpc = "write_rom.pages" => h'.bank >= h.bank]_vars

\* the two sizes for every sizeKb whose byte count a uint32_t holds
C38_InRange ==
    /\ ReadRomSized /\ InBytes(h.size_kb) <= UINT32_MAX
         => h.total_bytes = Min(InBytes(h.size_kb), h.device_bytes)
    /\ WriteRomSized /\ InBytes(h.size_kb) <= UINT32_MAX
         => h.write_size = Min(InBytes(h.size_kb), Len(wfile))

\* readRom or readSram is inside flashmd_device_init, the drain of its last
\* command included
ReadOps == {"read_rom", "read_sram"}
InDeviceInit ==
    /\ h.op \in ReadOps
    /\ hpc \in InitPcs \/ (hpc = h.op /\ helper # "none")
\* flashmd_device_init returns an error and the operation returns it
InitFails == InDeviceInit /\ hpc' = "idle"

\* C39: when deviceInit fails inside readRom or readSram the output file is
\* neither created nor truncated and no ReadRom or ReadSram command is sent.
C39_FileUntouched ==
    /\ [](InDeviceInit =>
             /\ fp = "closed"
             /\ \A k \in 1..Len(sent) : sent[k] \notin {CMD_READ_ROM, CMD_READ_SRAM})
    /\ [][(InDeviceInit => file' = file)
           /\ (InitFails => fp' = fp /\ sent' = sent /\ cmdbuff' = cmdbuff)]_vars

\* the second operation, a read, returned from a failed init and the file of
\* the first one is there
C39_Witness ==
    /\ hpc = "idle" /\ h.op \in ReadOps /\ nops = 2
    /\ result \in {"TIMEOUT", "IO"}
    /\ Len(sent) < 3
    /\ file # <<>> /\ fp = "closed"

\* a worker thread or the USB handler is between flashmd_open and the end of
\* flashmd_close
Busy(pc) == pc \in {"open", "run", "close"}
InFlight ==
    Cardinality({k \in 1..Len(gui.workers) : Busy(gui.workers[k].pc)})
        + (IF Busy(gui.usb.pc) THEN 1 ELSE 0)
\* start_operation is called in this step
Clicked == gui'.clicks # gui.clicks

\* C40: at most one operation of the Transfer Engine is in flight, in
\* worker-thread mode and in IPC mode: start_operation does nothing while
\* operation_running is set, and operation_running is cleared only after the
\* worker has finished and closed the transport.
C40_OneOperation ==
    /\ [](InFlight <= 1)
    /\ [][/\ Clicked /\ gui.operation_running # 0 => gui' = [gui EXCEPT !.clicks = @ + 1]
          /\ gui.operation_running # 0 /\ gui'.operation_running = 0
                => InFlight = 0 /\ gui'.workers = <<>> /\ gui'.pipe_to_usb = <<>>]_vars

\* a press was ignored while the first operation ran, and the second operation
\* runs after the first one was reported
C40_Witness ==
    /\ gui.clicks = 3 /\ gui.started = 2
    /\ gui.operation_running = 1 /\ InFlight = 1

====
